---- MODULE Spec2Model ----
(***************************************************************************)
(* Pride of Code: the script sandbox (cop/code_runner.py), the band        *)
(* simulation (cop/band.py), the save slots and the scenes as state        *)
(* machines.                                                               *)
(*                                                                         *)
(*   SpecBand  the Band object driven call by call through its API         *)
(*   Spec      LevelScene._run: run_player_code executing one script       *)
(*             against the scene's Band, and what the scene does with the  *)
(*             result                                                      *)
(*   SpecApi   a bounded number of Band API calls on a loaded level        *)
(*   SpecSave  the save slots (cop/save.py) written, loaded and deleted    *)
(*   SpecGame  the scene stack (cop/scenes.py) driven event by event and   *)
(*             frame by frame from the title screen                        *)
(***************************************************************************)
EXTENDS Integers, Sequences, FiniteSets, TLC

VARIABLES
    band,        \* the Band object: [entities, queue, time]
    call,        \* the last Band API call made by the host and the value it returned
    pc,          \* where run_player_code is: idle, script, success, failure, returned, raised
    prev,        \* how the call before this one ended: idle (there was none), returned
                 \* (a result with ok), failed (a result without), raised
    code,        \* the script being run
    env,         \* the caller's bindings table (its keys)
    line_limit,  \* the line_limit argument
    counter,     \* counter["lines"]
    tracing,     \* the tracer is the installed trace function (sys.gettrace())
    locals_dict, \* keys of the dict the script runs in: the bindings, then its own names
    resolved,    \* the names the script has looked up and found, so far
    at,          \* the part of the script being run: def, while, try, body, except, handler
    si,          \* the index of the body statement being run
    todo,        \* the line events still to come in the current statement or handler
    exc,         \* the exception run_player_code caught
    kwargs,      \* the RunResult arguments evaluated so far
    result,      \* the RunResult returned
    scene,       \* the LevelScene: error, playing, timeline, timeline_i, count_timer,
                 \* and its editor's error_line
    disk,        \* the save directory: for each slot number, its file
    io,          \* the last call made on cop/save.py and what it returned
    game         \* the Game object and what its scenes hold: the stack (class names,
                 \* bottom first), current_save, the hub's selected week, the
                 \* dialogue's on_done, the level scene's level and editor text

bandVars == <<band, call>>

runVars == <<pc, prev, code, env, line_limit, counter, tracing, locals_dict, resolved,
             at, si, todo, exc, kwargs, result>>

sandboxVars == <<runVars, scene>>

saveVars == <<disk, io, game>>

vars == <<band, call, pc, prev, code, env, line_limit, counter, tracing, locals_dict,
          resolved, at, si, todo, exc, kwargs, result, scene, disk, io, game>>

(***************************************************************************)
(* Bounds of the model and the values the inputs are drawn from.           *)
(***************************************************************************)
MaxQueue == 2          \* most actions the model lets the queue hold
MaxCounts == 2         \* largest counts argument passed to step_to / wait
MaxTicks == 2          \* largest max_counts passed to make_timeline
MaxLines == 26         \* largest line_limit passed to run_player_code
TbLibLines == 2        \* lines traced inside traceback.extract_tb (the library runs many more)
MaxSlots == 2          \* save slots in the save directory
MaxPoints == 12        \* largest number held by a field of a save slot
MaxCalls == 3          \* most Band API calls in a run of SpecApi
MaxAwards == 2         \* most awards of points in a run of SpecGame
MaxHints == 1          \* most hints appended to one editor text

Names == {"A", "B"}
Points == {<<0, 0>>, <<1, 2>>}
CountArgs == {-1, 0, 1, MaxCounts}
TickArgs == 0 .. MaxTicks
WhoArgs == {<<"A">>, <<"B">>, <<"A", "B">>}

WAIT == "__WAIT__"
GEN == "GEN"
LevelSection == "BRASS"
None == "None"

Max(a, b) == IF a >= b THEN a ELSE b
Min(a, b) == IF a <= b THEN a ELSE b

(***************************************************************************)
(* cop/band.py: Entity, StepAction and the dict of entities.  A Python     *)
(* dict keeps insertion order, so it is a sequence of records keyed by     *)
(* name; assigning to an existing key keeps the key's place.               *)
(***************************************************************************)
Entity(name, section, x, y) == [name |-> name, section |-> section, x |-> x, y |-> y]

StepAction(entity, start, end, counts) ==
    [entity |-> entity, start |-> start, end |-> end, counts |-> counts, t |-> 0]

HasKey(d, k) == \E i \in 1 .. Len(d) : d[i].name = k

KeyIndex(d, k) == CHOOSE i \in 1 .. Len(d) : d[i].name = k

DictGet(d, k) == d[KeyIndex(d, k)]

DictSet(d, item) ==
    IF HasKey(d, item.name) THEN [d EXCEPT ![KeyIndex(d, item.name)] = item]
    ELSE Append(d, item)

Keys(d) == [i \in 1 .. Len(d) |-> d[i].name]

NewBand == [entities |-> <<>>, queue |-> <<>>, time |-> 0]

spawn(b, name, section, x, y) ==
    [b EXCEPT !.entities = DictSet(@, Entity(name, section, x, y))]

\* a set_pos that, like get_pos, leaves a name the registry lacks unspawned
set_pos_known_only(b, name, x, y) ==
    IF ~HasKey(b.entities, name) THEN b
    ELSE [b EXCEPT !.entities[KeyIndex(b.entities, name)].x = x,
                   !.entities[KeyIndex(b.entities, name)].y = y]

\* a set_pos that spawns the name anew whether the registry has it or not
set_pos_respawn(b, name, x, y) == spawn(b, name, GEN, x, y)

\* a set_pos that also restarts the queued moves of the entity it places
set_pos_restart(b, name, x, y) ==
    [(IF ~HasKey(b.entities, name) THEN spawn(b, name, GEN, x, y)
      ELSE [b EXCEPT !.entities[KeyIndex(b.entities, name)].x = x,
                     !.entities[KeyIndex(b.entities, name)].y = y])
     EXCEPT !.queue = [i \in 1 .. Len(b.queue) |->
                          IF b.queue[i].entity = name
                          THEN [b.queue[i] EXCEPT !.start = <<x, y>>]
                          ELSE b.queue[i]]]

set_pos(b, name, x, y) ==
    IF ~HasKey(b.entities, name) THEN spawn(b, name, GEN, x, y)
    ELSE [b EXCEPT !.entities[KeyIndex(b.entities, name)].x = x,
                   !.entities[KeyIndex(b.entities, name)].y = y]

get_pos_raises(b, name) == ~HasKey(b.entities, name)

get_pos(b, name) == <<DictGet(b.entities, name).x, DictGet(b.entities, name).y>>

get_all(b) == Keys(b.entities)

is_occupied(b, x, y) == \E i \in 1 .. Len(b.entities) : b.entities[i].x = x /\ b.entities[i].y = y

\* band.py:63-64
AutoSpawn(b, n) == IF ~HasKey(b.entities, n) THEN spawn(b, n, GEN, 0, 0) ELSE b

\* a step_to that starts a move where the entity's last queued move ends
QueueMove_chained(b, n, x, y, counts) ==
    LET mine == SelectSeq(b.queue, LAMBDA act : act.entity = n)
        from == IF mine = <<>> THEN get_pos(b, n) ELSE mine[Len(mine)].end
    IN  [b EXCEPT !.queue = Append(@, StepAction(n, from, <<x, y>>, counts))]

\* band.py:65-66
QueueMove(b, n, x, y, counts) ==
    [b EXCEPT !.queue = Append(@, StepAction(n, get_pos(b, n), <<x, y>>, counts))]

\* a step_to that starts every move where the registry's first entity stands
StepToOne_first_start(b, n, x, y, counts) ==
    [AutoSpawn(b, n) EXCEPT
        !.queue = Append(@, StepAction(n, get_pos(b, b.entities[1].name), <<x, y>>, counts))]

\* one pass of the loop over names in step_to (band.py:62-66)
StepToOne(b, n, x, y, counts) == QueueMove(AutoSpawn(b, n), n, x, y, counts)

RECURSIVE StepToNames(_, _, _, _, _)
StepToNames(b, names, x, y, counts) ==
    IF names = <<>> THEN b
    ELSE StepToNames(StepToOne(b, Head(names), x, y, counts), Tail(names), x, y, counts)

\* a step_to that queues the counts it was given
step_to_unclamped(b, who, x, y, counts) == StepToNames(b, who, x, y, counts)

\* who: a sequence of names (a single string is the one-element sequence)
step_to(b, who, x, y, counts) == StepToNames(b, who, x, y, Max(1, counts))

wait(b, counts) ==
    [b EXCEPT !.queue = Append(@, StepAction(WAIT, <<0, 0>>, <<0, 0>>, Max(1, counts)))]

reset_actions(b) == [b EXCEPT !.queue = <<>>, !.time = 0]

\* a snapshot is a dict name -> (x, y), in the registry's order
snapshot(b) ==
    [i \in 1 .. Len(b.entities) |->
        [name |-> b.entities[i].name, pos |-> <<b.entities[i].x, b.entities[i].y>>]]

RECURSIVE apply_snapshot(_, _)
apply_snapshot(b, snap) ==
    IF snap = <<>> THEN b
    ELSE LET it == Head(snap)
             b1 == IF HasKey(b.entities, it.name)
                   THEN [b EXCEPT !.entities[KeyIndex(b.entities, it.name)].x = it.pos[1],
                                  !.entities[KeyIndex(b.entities, it.name)].y = it.pos[2]]
                   ELSE spawn(b, it.name, GEN, it.pos[1], it.pos[2])
         IN  apply_snapshot(b1, Tail(snap))

(***************************************************************************)
(* Python's round() on the quotient n/d (d > 0): to the nearest integer,   *)
(* a tie to the even neighbour.  The model's quotients are small enough    *)
(* for the float computed by the code to round like the exact quotient.    *)
(***************************************************************************)
PyRound(n, d) ==
    LET q == (2 * n + d) \div (2 * d)
    IN  IF (2 * n + d) % (2 * d) = 0 /\ q % 2 # 0 THEN q - 1 ELSE q

\* an interpolation that uses t where the code uses t + 1
Interpolate_late(act, t) ==
    <<PyRound(act.start[1] * act.counts + (act.end[1] - act.start[1]) * t, act.counts),
      PyRound(act.start[2] * act.counts + (act.end[2] - act.start[2]) * t, act.counts)>>

\* band.py:108-112: the position written at tick t of action act
Interpolate(act, t) ==
    <<PyRound(act.start[1] * act.counts + (act.end[1] - act.start[1]) * (t + 1), act.counts),
      PyRound(act.start[2] * act.counts + (act.end[2] - act.start[2]) * (t + 1), act.counts)>>

\* loops that test the limit after appending the tick's snapshot
RECURSIVE TimelineLoop_test_late(_, _, _, _, _, _, _)
TimelineLoop_test_late(q, i, t, t_global, pos, tl, max_counts) ==
    IF i > Len(q) THEN [timeline |-> tl, pos |-> pos]
    ELSE IF t >= q[i].counts
    THEN TimelineLoop_test_late(q, i + 1, 0, t_global, pos, tl, max_counts)
    ELSE IF t_global > max_counts THEN [timeline |-> tl, pos |-> pos]
    ELSE LET pos1 == IF q[i].entity # WAIT
                     THEN DictSet(pos, [name |-> q[i].entity, pos |-> Interpolate(q[i], t)])
                     ELSE pos
         IN  TimelineLoop_test_late(q, i, t + 1, t_global + 1, pos1, Append(tl, pos1),
                                    max_counts)

\* band.py:102-115: the two nested loops, at action i (1-based), tick t
RECURSIVE TimelineLoop(_, _, _, _, _, _, _)
TimelineLoop(q, i, t, t_global, pos, tl, max_counts) ==
    IF i > Len(q) THEN [timeline |-> tl, pos |-> pos]
    ELSE IF t >= q[i].counts THEN TimelineLoop(q, i + 1, 0, t_global, pos, tl, max_counts)
    ELSE IF t_global + 1 > max_counts THEN [timeline |-> tl, pos |-> pos]
    ELSE LET pos1 == IF q[i].entity # WAIT
                     THEN DictSet(pos, [name |-> q[i].entity, pos |-> Interpolate(q[i], t)])
                     ELSE pos
         IN  TimelineLoop(q, i, t + 1, t_global + 1, pos1, Append(tl, pos1), max_counts)

\* a make_timeline whose first snapshot holds the first entity only
BuildTimeline_partial_first(b, max_counts) ==
    TimelineLoop(b.queue, 1, 0, 0, snapshot(b), <<SubSeq(snapshot(b), 1, 1)>>, max_counts)

\* a make_timeline that plays a wait as a move of the first entity to (0,0)
BuildTimeline_wait_moves(b, max_counts) ==
    TimelineLoop([i \in 1 .. Len(b.queue) |->
                     IF b.queue[i].entity = WAIT
                     THEN [b.queue[i] EXCEPT !.entity = b.entities[1].name]
                     ELSE b.queue[i]],
                 1, 0, 0, snapshot(b), <<snapshot(b)>>, max_counts)

\* a make_timeline that plays the queue from its last action to its first
BuildTimeline_backwards(b, max_counts) ==
    TimelineLoop([i \in 1 .. Len(b.queue) |-> b.queue[Len(b.queue) + 1 - i]],
                 1, 0, 0, snapshot(b), <<snapshot(b)>>, max_counts)

BuildTimeline(b, max_counts) ==
    TimelineLoop(b.queue, 1, 0, 0, snapshot(b), <<snapshot(b)>>, max_counts)

\* a make_timeline that leaves the registry at the last computed positions
make_timeline_keep_pos(b, max_counts) ==
    [timeline |-> BuildTimeline(b, max_counts).timeline,
     band |-> apply_snapshot(b, BuildTimeline(b, max_counts).pos)]

\* a make_timeline that consumes the queue it has played
make_timeline_consume(b, max_counts) ==
    [timeline |-> BuildTimeline(b, max_counts).timeline,
     band |-> [apply_snapshot(b, snapshot(b)) EXCEPT !.queue = <<>>]]

\* a make_timeline whose tick limit is off by one (>= instead of >)
make_timeline_off_by_one(b, max_counts) ==
    [timeline |-> BuildTimeline(b, max_counts - 1).timeline,
     band |-> apply_snapshot(b, snapshot(b))]

\* band.py:90-119: the timeline returned and the band afterwards
make_timeline(b, max_counts) ==
    [timeline |-> BuildTimeline(b, max_counts).timeline,
     band |-> apply_snapshot(b, snapshot(b))]

\* band.py:124-138: the two nested loops of simulate, at action i, tick t
RECURSIVE SimulateLoop(_, _, _, _, _, _)
SimulateLoop(q, i, t, time, ents, max_counts) ==
    IF i > Len(q) THEN [entities |-> ents, time |-> time]
    ELSE IF t >= q[i].counts THEN SimulateLoop(q, i + 1, 0, time, ents, max_counts)
    ELSE IF time + 1 > max_counts THEN [entities |-> ents, time |-> time + 1]
    ELSE IF q[i].entity = WAIT \/ ~HasKey(ents, q[i].entity)
    THEN SimulateLoop(q, i, t + 1, time + 1, ents, max_counts)
    ELSE SimulateLoop(q, i, t + 1, time + 1,
                      [ents EXCEPT ![KeyIndex(ents, q[i].entity)].x = Interpolate(q[i], t)[1],
                                   ![KeyIndex(ents, q[i].entity)].y = Interpolate(q[i], t)[2]],
                      max_counts)

\* a simulate that stops one tick before make_timeline does
simulate_one_short(b, max_counts) ==
    [b EXCEPT !.entities = SimulateLoop(b.queue, 1, 0, 0, b.entities, max_counts - 1).entities,
              !.time = SimulateLoop(b.queue, 1, 0, 0, b.entities, max_counts - 1).time]

\* band.py:121-138
simulate(b, max_counts) ==
    [b EXCEPT !.entities = SimulateLoop(b.queue, 1, 0, 0, b.entities, max_counts).entities,
              !.time = SimulateLoop(b.queue, 1, 0, 0, b.entities, max_counts).time]

(***************************************************************************)
(* LevelScene._load_level (scenes.py:588-599): the band a run starts from. *)
(***************************************************************************)
\* the level's start layout
StartEntities == <<Entity("A", LevelSection, 1, 2)>>

RECURSIVE SpawnAll(_, _)
SpawnAll(b, ents) ==
    IF ents = <<>> THEN b
    ELSE SpawnAll(spawn(b, Head(ents).name, Head(ents).section, Head(ents).x, Head(ents).y),
                  Tail(ents))

\* a _load_level that spawns the start layout over the entities it finds
load_level_keeps_entities(b) == SpawnAll(reset_actions(b), StartEntities)

\* a _load_level that leaves the queue and the time as it finds them
load_level_keeps_queue(b) == SpawnAll([b EXCEPT !.entities = <<>>], StartEntities)

load_level(b) == SpawnAll(reset_actions([b EXCEPT !.entities = <<>>]), StartEntities)

(***************************************************************************)
(* cop/code_runner.py: scripts.                                            *)
(*                                                                         *)
(* A script is laid out as                                                 *)
(*      def f():              (when a statement calls f)                   *)
(*          <the statement f runs>                                         *)
(*      while True:           (when loop)                                  *)
(*          try:              (when guard is bare or named)                *)
(*              <body>                                                     *)
(*          except:           (bare)   or   except Exception:   (named)    *)
(*              pass                                                       *)
(* and compile says what exec does with the text before it runs a line.    *)
(***************************************************************************)
Stmt(op, a) == [op |-> op, a |-> a]

Assign(n) == Stmt("assign", <<n>>)
Ref(n) == Stmt("ref", <<n>>)
Import == Stmt("import", <<"os">>)
Raise(type) == Stmt("raise", <<type>>)
CallSpawn(n, p) == Stmt("spawn", <<n, LevelSection, p[1], p[2]>>)
CallSetPos(n, p) == Stmt("set_pos", <<n, p[1], p[2]>>)
CallGetPos(n) == Stmt("get_pos", <<n>>)
CallStepTo(n, p, c) == Stmt("step_to", <<n, p[1], p[2], c>>)
CallWait(c) == Stmt("wait", <<c>>)
CallF(inner) == Stmt("fcall", <<inner>>)

NoLine == <<>>
LineNo(k) == <<k>>

Script(body, loop, guard) ==
    [compile |-> "ok", lineno |-> NoLine, body |-> body, loop |-> loop, guard |-> guard]

Unparsable(type, lineno) ==
    [compile |-> type, lineno |-> lineno, body |-> <<>>, loop |-> FALSE, guard |-> "none"]

\* a script that reads the binding, and one that needs none
ReadsBand == Script(<<Ref("band")>>, FALSE, "none")
ReadsOwn == Script(<<Assign("x"), Ref("x")>>, FALSE, "none")

Scripts ==
    << ReadsOwn,
       ReadsBand,
       Script(<<Assign("x"), Ref("y")>>, FALSE, "none"),
       Script(<<Ref("len")>>, FALSE, "none"),
       Script(<<Ref("__builtins__")>>, FALSE, "none"),
       Script(<<Import>>, FALSE, "none"),
       Script(<<Raise("ZeroDivisionError")>>, FALSE, "none"),
       Script(<<Raise("TypeError")>>, FALSE, "none"),
       Script(<<CallGetPos("B")>>, FALSE, "none"),
       Script(<<CallSetPos("A", <<0, 0>>), CallWait(0)>>, FALSE, "none"),
       Script(<<CallStepTo("B", <<1, 2>>, 2)>>, FALSE, "none"),
       Script(<<CallF(Ref("y"))>>, FALSE, "none"),
       Script(<<CallF(Ref("band"))>>, FALSE, "none"),
       Script(<<Assign("x")>>, TRUE, "none"),
       Script(<<Assign("x")>>, TRUE, "bare"),
       Script(<<Assign("x")>>, TRUE, "named"),
       Script(<<Assign("x"), Assign("x")>>, FALSE, "bare"),
       Unparsable("SyntaxError", LineNo(1)),
       Unparsable("IndentationError", LineNo(2)),
       Unparsable("RecursionError", NoLine) >>

\* scenes.py:645: what the host binds
HostEnv == {"band"}

\* the calls made: every script with the host's bindings, two without any
Run(text, e) == [text |-> text, env |-> e]
Runs ==
    [i \in 1 .. Len(Scripts) |-> Run(Scripts[i], HostEnv)]
        \o <<Run(ReadsOwn, {}), Run(ReadsBand, {})>>

LimitArgs == 0 .. MaxLines

HasDef(p) == \E i \in 1 .. Len(p.body) : p.body[i].op = "fcall"
Offset(p) ==
    (IF HasDef(p) THEN 2 ELSE 0) + (IF p.loop THEN 1 ELSE 0) + (IF p.guard # "none" THEN 1 ELSE 0)
DefLine(p) == 1
FBodyLine(p) == 2
WhileLine(p) == (IF HasDef(p) THEN 2 ELSE 0) + 1
TryLine(p) == Offset(p)
BodyLine(p, i) == Offset(p) + i
ExceptLine(p) == Offset(p) + Len(p.body) + 1
HandlerLine(p) == Offset(p) + Len(p.body) + 2

(***************************************************************************)
(* Line events.  The tracer set by sys.settrace is called before every     *)
(* line of every Python frame entered while it is installed: the script's, *)
(* the Band methods', the dataclass __init__s' (compiled from "<string>")  *)
(* and run_player_code's own helpers.  A line is [frames, eff, a]: the     *)
(* stack below run_player_code (outermost first, each <<file, line>>),     *)
(* and what the line does once its event has passed.                       *)
(***************************************************************************)
LineEv(frames, eff, a) == [frames |-> frames, eff |-> eff, a |-> a]

In(frames, file, line) == Append(frames, <<file, line>>)

Plain(frames, file, lines) ==
    [i \in 1 .. Len(lines) |-> LineEv(In(frames, file, lines[i]), "nop", <<>>)]

Ending(frames, file, lines, eff, a) ==
    [i \in 1 .. Len(lines) |->
        IF i = Len(lines) THEN LineEv(In(frames, file, lines[i]), eff, a)
        ELSE LineEv(In(frames, file, lines[i]), "nop", <<>>)]

\* Entity.__init__ (band.py:8-13) and StepAction.__init__ (band.py:15-21)
EntityInit(frames, eff, a) == Ending(frames, "<string>", <<3, 4, 5, 6>>, eff, a)
ActionInit(frames, eff, a) == Ending(frames, "<string>", <<3, 4, 5, 6, 7>>, eff, a)

\* band.py:32-33
SpawnLines(frames, n, section, x, y) ==
    Plain(frames, "band.py", <<33>>)
        \o EntityInit(In(frames, "band.py", 33), "spawn", <<n, section, x, y>>)

\* band.py:35-40
SetPosLines(frames, b, n, x, y) ==
    IF ~HasKey(b.entities, n)
    THEN Plain(frames, "band.py", <<36, 37, 38>>) \o SpawnLines(In(frames, "band.py", 38), n, GEN, x, y)
    ELSE Plain(frames, "band.py", <<36, 37>>) \o Ending(frames, "band.py", <<40>>, "set_xy", <<n, x, y>>)

\* band.py:42-44
GetPosLines(frames, b, n) ==
    IF get_pos_raises(b, n) THEN Ending(frames, "band.py", <<43>>, "raise", <<"KeyError">>)
    ELSE Plain(frames, "band.py", <<43, 44>>)

\* band.py:56-66, who a single name
StepToLines(frames, b, n, x, y, counts) ==
    Plain(frames, "band.py", <<57, 58, 59, 62, 63>>)
        \o (IF ~HasKey(b.entities, n)
            THEN Plain(frames, "band.py", <<64>>) \o SpawnLines(In(frames, "band.py", 64), n, GEN, 0, 0)
            ELSE <<>>)
        \o Plain(frames, "band.py", <<65, 66>>)
        \o ActionInit(In(frames, "band.py", 66), "queue_move", <<n, x, y, Max(1, counts)>>)
        \o Plain(frames, "band.py", <<62>>)

\* band.py:68-70
WaitLines(frames, counts) ==
    Plain(frames, "band.py", <<70>>)
        \o ActionInit(In(frames, "band.py", 70), "queue_wait", <<counts>>)

\* the lines of one statement, at stack `frames`, in scope module or function
RECURSIVE StmtLines(_, _, _, _)
StmtLines(st, frames, scope, b) ==
    CASE st.op = "assign" -> <<LineEv(frames, "define", st.a)>>
      [] st.op = "ref" -> <<LineEv(frames, "lookup", <<st.a[1], scope>>)>>
      [] st.op = "import" -> <<LineEv(frames, "lookup", <<"__import__", "builtins">>)>>
      [] st.op = "raise" -> <<LineEv(frames, "raise", st.a)>>
      [] st.op = "fcall" ->
            <<LineEv(frames, "lookup", <<"f", scope>>)>>
                \o StmtLines(st.a[1], In(frames, "<string>", 2), "function", b)
      [] st.op = "spawn" ->
            <<LineEv(frames, "lookup", <<"band", scope>>)>>
                \o SpawnLines(frames, st.a[1], st.a[2], st.a[3], st.a[4])
      [] st.op = "set_pos" ->
            <<LineEv(frames, "lookup", <<"band", scope>>)>>
                \o SetPosLines(frames, b, st.a[1], st.a[2], st.a[3])
      [] st.op = "get_pos" ->
            <<LineEv(frames, "lookup", <<"band", scope>>)>> \o GetPosLines(frames, b, st.a[1])
      [] st.op = "step_to" ->
            <<LineEv(frames, "lookup", <<"band", scope>>)>>
                \o StepToLines(frames, b, st.a[1], st.a[2], st.a[3], st.a[4])
      [] st.op = "wait" ->
            <<LineEv(frames, "lookup", <<"band", scope>>)>> \o WaitLines(frames, st.a[1])

Top(line) == <<<<"<string>", line>>>>

\* the lines of the part `where` of script p
PartLines(p, where, i, b) ==
    CASE where = "def" -> <<LineEv(Top(DefLine(p)), "define", <<"f">>)>>
      [] where = "while" -> <<LineEv(Top(WhileLine(p)), "nop", <<>>)>>
      [] where = "try" -> <<LineEv(Top(TryLine(p)), "nop", <<>>)>>
      [] where = "body" -> StmtLines(p.body[i], Top(BodyLine(p, i)), "module", b)
      [] where = "except" ->
            IF p.guard = "named"
            THEN <<LineEv(Top(ExceptLine(p)), "lookup", <<"Exception", "module">>)>>
            ELSE <<LineEv(Top(ExceptLine(p)), "nop", <<>>)>>
      [] where = "handler" -> <<LineEv(Top(HandlerLine(p)), "nop", <<>>)>>

\* the part that runs first, and the part that follows <<where, i>> ("end": none)
FirstPart(p) ==
    IF HasDef(p) THEN <<"def", 0>>
    ELSE IF p.loop THEN <<"while", 0>>
    ELSE IF p.guard # "none" THEN <<"try", 0>>
    ELSE <<"body", 1>>

NextPart(p, where, i) ==
    CASE where = "def" ->
            IF p.loop THEN <<"while", 0>>
            ELSE IF p.guard # "none" THEN <<"try", 0>> ELSE <<"body", 1>>
      [] where = "while" -> IF p.guard # "none" THEN <<"try", 0>> ELSE <<"body", 1>>
      [] where = "try" -> <<"body", 1>>
      [] where = "body" ->
            IF i < Len(p.body) THEN <<"body", i + 1>>
            ELSE IF p.loop THEN <<"while", 0>> ELSE <<"end", 0>>
      [] where = "except" -> <<"handler", 0>>
      [] where = "handler" -> IF p.loop THEN <<"while", 0>> ELSE <<"end", 0>>

\* the try block covers the body (and the frames it calls), not the try line
Protected(p, where) == p.guard # "none" /\ where = "body"

(***************************************************************************)
(* code_runner.py:60-77: what a name resolves against.                     *)
(***************************************************************************)
SafeBuiltins ==
    {"range", "len", "min", "max", "abs", "int", "float", "str", "print", "list", "dict",
     "sum", "enumerate"}

safe_builtins == SafeBuiltins

\* the keys of globals_dict
globals_dict == {"__builtins__"}

\* LOAD_NAME at module level: locals, globals, builtins; inside a function the
\* dict exec was given as locals is not searched; import asks the builtins only
Resolves(name, scope, locs) ==
    CASE scope = "module" -> name \in locs \cup globals_dict \cup safe_builtins
      [] scope = "function" -> name \in globals_dict \cup safe_builtins
      [] scope = "builtins" -> name \in safe_builtins

\* an exec that writes the script's names to the table the caller passed
CallerEnv_shared(e, locs) == locs

\* code_runner.py:77-81: exec is given locals_dict, a table of its own made
\* by dict(env), so what the script binds is written to locs and the caller's
\* table e keeps the keys it had
CallerEnv(e, locs) == e

\* the exception a line raises when it runs, "None" when it raises none
Raises(ev, locs) ==
    CASE ev.eff = "lookup" ->
            IF Resolves(ev.a[1], ev.a[2], locs) THEN None
            ELSE IF ev.a[2] = "builtins" THEN "ImportError" ELSE "NameError"
      [] ev.eff = "raise" -> ev.a[1]
      [] OTHER -> None

\* the band after a line has run
BandAfter(ev, b) ==
    CASE ev.eff = "spawn" -> spawn(b, ev.a[1], ev.a[2], ev.a[3], ev.a[4])
      [] ev.eff = "set_xy" -> set_pos(b, ev.a[1], ev.a[2], ev.a[3])
      [] ev.eff = "queue_move" -> QueueMove(b, ev.a[1], ev.a[2], ev.a[3], ev.a[4])
      [] ev.eff = "queue_wait" -> wait(b, ev.a[1])
      [] OTHER -> b

(***************************************************************************)
(* code_runner.py:9-42: RunResult, StepLimit and the two helpers.  A       *)
(* message is <<head, tip>>: the exception's type name (or, for the step   *)
(* limit, the whole sentence) and the tip appended to it; the text of      *)
(* str(err) between the two is not modelled.                               *)
(***************************************************************************)
NoError == <<>>
LimitMessage == "Your rehearsal ran too long (possible infinite loop)."
NameTip == "Tip: define the variable before using it."
TypeTip == "Tip: check function arguments and value types."

RunResult(ok, error, lines_executed, error_line) ==
    [ok |-> ok, error |-> error, lines_executed |-> lines_executed, used_hint |-> FALSE,
     error_line |-> error_line]

\* the defaults of the dataclass
NoKwargs == RunResult(FALSE, NoError, 0, NoLine)

Exc(type, tb, lineno) == [type |-> type, tb |-> tb, lineno |-> lineno]
NoExc == Exc(None, <<>>, NoLine)

\* the frame of run_player_code, at its exec line
RunnerFrame == <<"code_runner.py", 81>>

\* a _friendly_error that files every fault but the three it knows under one name
friendly_error_closed(err) ==
    IF err.type = "SyntaxError" THEN <<"SyntaxError", "">>
    ELSE IF err.type = "NameError" THEN <<"NameError", NameTip>>
    ELSE IF err.type = "TypeError" THEN <<"TypeError", TypeTip>>
    ELSE <<"OtherRuntimeError", "">>

friendly_error(err) ==
    IF err.type = "SyntaxError" THEN <<"SyntaxError", "">>
    ELSE IF err.type = "NameError" THEN <<"NameError", NameTip>>
    ELSE IF err.type = "TypeError" THEN <<"TypeError", TypeTip>>
    ELSE <<err.type, "">>

\* isinstance(err, SyntaxError)
IsSyntaxError(err) == err.type \in {"SyntaxError", "IndentationError"}

\* code_runner.py:39-42, from frame i of tb down to the first
RECURSIVE ScanFrames(_, _)
ScanFrames(tb, i) ==
    IF i = 0 THEN NoLine
    ELSE IF tb[i][1] = "<string>" THEN LineNo(tb[i][2])
    ELSE ScanFrames(tb, i - 1)

extract_error_line(err) ==
    IF IsSyntaxError(err) THEN err.lineno ELSE ScanFrames(err.tb, Len(err.tb))

\* the lines _friendly_error runs
FriendlyLines(err) ==
    IF err.type = "SyntaxError" THEN <<23, 24, 25, 26>>
    ELSE IF err.type = "NameError" THEN <<23, 24, 25, 27, 28>>
    ELSE IF err.type = "TypeError" THEN <<23, 24, 25, 27, 29, 30>>
    ELSE <<23, 24, 25, 27, 29, 31>>

\* the lines the loop of _extract_error_line runs
RECURSIVE ScanLines(_, _)
ScanLines(tb, i) ==
    IF i = 0 THEN <<39, 42>>
    ELSE IF tb[i][1] = "<string>" THEN <<39, 40, 41>>
    ELSE <<39, 40>> \o ScanLines(tb, i - 1)

ExtractLines(err) ==
    IF IsSyntaxError(err) THEN Ending(<<>>, "code_runner.py", <<35, 36>>, "set_error_line", <<>>)
    ELSE Plain(<<>>, "code_runner.py", <<35, 37, 38>>)
            \o Plain(In(<<>>, "code_runner.py", 38), "traceback.py", [i \in 1 .. TbLibLines |-> 74])
            \o Ending(<<>>, "code_runner.py", ScanLines(err.tb, Len(err.tb)), "set_error_line", <<>>)

\* RunResult.__init__ (code_runner.py:9-15), then the return
ResultInit == Ending(<<>>, "<string>", <<3, 4, 5, 6, 7>>, "return", <<>>)

\* code_runner.py:85-91: the arguments in the order they are evaluated
FailureLines(err) ==
    Ending(<<>>, "code_runner.py", FriendlyLines(err), "set_error", <<>>)
        \o ExtractLines(err) \o ResultInit

\* code_runner.py:51
FreshCounter == 0

\* code_runner.py:92-93: the trace function left installed when the call ends
finally_skipped(installed) == installed
finally_settrace(installed) == FALSE

\* code_runner.py:83-84
StepLimitResult(lines) == RunResult(FALSE, <<LimitMessage, "">>, lines, NoLine)

(***************************************************************************)
(* Spec: run_player_code, one line event per step.                         *)
(***************************************************************************)
\* The last call made on the Band by the host, and what it returned.
\* again: the call repeats the call before it (same operation, same argument)
Returned(op, arg, val, again) == [op |-> op, arg |-> arg, val |-> val, again |-> again]

NoValue == Returned("other", 0, <<>>, FALSE)

(***************************************************************************)
(* cop/save.py: SaveSlot and its file.  write_slot stores json.dump of     *)
(* asdict(s); load_slot builds a SaveSlot from the keywords json.load      *)
(* gives.  A Python dict is                                                *)
(* a sequence of <<key, value>> in insertion order; a JSON document is the *)
(* sequence of its members <<key, token>>, a token being <<kind, text>>:   *)
(* a number is stored as its decimal digits, a string as itself, a bool    *)
(* as true or false, an object as its members.                             *)
(***************************************************************************)
\* save.py:10-23: the fields of SaveSlot, in order
Fields ==
    <<"slot", "week_unlocked", "last_played_week", "pride_points", "streak", "hints_used",
      "name", "code_by_level", "intro_seen", "week1_briefing_seen", "week1_lesson_seen">>

\* save.py:10-23: SaveSlot(slot=slot), every other field at its default
SaveSlot(slot) ==
    [slot |-> slot, week_unlocked |-> 1, last_played_week |-> 1, pride_points |-> 0,
     streak |-> 0, hints_used |-> 0, name |-> "DIRECTOR", code_by_level |-> <<>>,
     intro_seen |-> FALSE, week1_briefing_seen |-> FALSE, week1_lesson_seen |-> FALSE]

\* the annotated type of a field
TypeOf(f) ==
    CASE f = "name" -> "str"
      [] f = "code_by_level" -> "dict"
      [] f \in {"intro_seen", "week1_briefing_seen", "week1_lesson_seen"} -> "bool"
      [] OTHER -> "int"

HasMember(d, k) == \E i \in 1 .. Len(d) : d[i][1] = k

Member(d, k) == d[CHOOSE i \in 1 .. Len(d) : d[i][1] = k][2]

\* d[k] = v on a dict
PutMember(d, k, v) ==
    IF HasMember(d, k) THEN [i \in 1 .. Len(d) |-> IF d[i][1] = k THEN <<k, v>> ELSE d[i]]
    ELSE Append(d, <<k, v>>)

\* dataclasses.asdict
asdict(s) == [i \in 1 .. Len(Fields) |-> <<Fields[i], s[Fields[i]]>>]

\* the decimal digits json.dump writes for an int n >= 0
RECURSIVE Digits(_)
Digits(n) == IF n < 10 THEN <<n>> ELSE Append(Digits(n \div 10), n % 10)

\* json.dump of one value of type t
Encode(t, v) ==
    CASE t = "int" -> <<"number", Digits(v)>>
      [] t = "str" -> <<"string", v>>
      [] t = "bool" -> IF v THEN <<"true", "true">> ELSE <<"false", "false">>
      [] t = "dict" -> <<"object", [j \in 1 .. Len(v) |-> <<v[j][1], <<"string", v[j][2]>>>>]>>

\* the int a JSON number reads as
RECURSIVE ParseInt(_)
ParseInt(text) ==
    IF Len(text) = 1 THEN text[1]
    ELSE 10 * ParseInt(SubSeq(text, 1, Len(text) - 1)) + text[Len(text)]

\* json.load of one token
Decode(tok) ==
    CASE tok[1] = "number" -> ParseInt(tok[2])
      [] tok[1] = "string" -> tok[2]
      [] tok[1] = "true" -> TRUE
      [] tok[1] = "false" -> FALSE
      [] tok[1] = "object" -> [j \in 1 .. Len(tok[2]) |-> <<tok[2][j][1], tok[2][j][2][2]>>]

\* a json.dump that leaves the code_by_level member out
json_dump_without_code(d) ==
    LET kept == SelectSeq(d, LAMBDA m : m[1] # "code_by_level")
    IN  [i \in 1 .. Len(kept) |-> <<kept[i][1], Encode(TypeOf(kept[i][1]), kept[i][2])>>]

json_dump(d) == [i \in 1 .. Len(d) |-> <<d[i][1], Encode(TypeOf(d[i][1]), d[i][2])>>]

json_load(doc) == [i \in 1 .. Len(doc) |-> <<doc[i][1], Decode(doc[i][2])>>]

\* SaveSlot built from the keywords d: the fields d has, the defaults for the others
FromDict(d) ==
    [f \in {Fields[i] : i \in 1 .. Len(Fields)} |->
        IF HasMember(d, f) THEN Member(d, f) ELSE SaveSlot(Member(d, "slot"))[f]]

NoFile == [exists |-> FALSE, doc |-> <<>>]
File(doc) == [exists |-> TRUE, doc |-> doc]

\* an empty save directory
NoFiles == [k \in 1 .. MaxSlots |-> NoFile]

\* save.py:30-38: <<the slot>>, or <<>> for None
load_slot(dir, slot) ==
    IF ~dir[slot].exists THEN <<>>
    ELSE LET d == json_load(dir[slot].doc)
             d1 == IF ~HasMember(d, "code_by_level") THEN PutMember(d, "code_by_level", <<>>)
                   ELSE d
         IN  <<FromDict(d1)>>

\* save.py:41-44: the directory afterwards
write_slot(dir, s) == [dir EXCEPT ![s.slot] = File(json_dump(asdict(s)))]

\* save.py:47-50
delete_slot(dir, slot) == [dir EXCEPT ![slot] = NoFile]

\* save.py:53-55: the slot object and the directory afterwards
save_level_code(dir, s, level_key, code_text) ==
    LET s1 == [s EXCEPT !.code_by_level = PutMember(@, level_key, code_text)]
    IN  [slot |-> s1, dir |-> write_slot(dir, s1)]

SaveCall(op, slot, arg, val) == [op |-> op, slot |-> slot, arg |-> arg, val |-> val]

\* scenes.py:175-178 and main.py:27: the Game as main constructs it, no scene
\* pushed yet; the fields of the scenes it will hold are at their defaults
NewGame ==
    [running |-> TRUE, stack |-> <<>>, current_save |-> <<>>, toast_msg |-> None,
     selected_week |-> 1, on_done |-> None, level |-> 0, sandbox |-> FALSE, text |-> <<"", 0>>,
     awards |-> 0]

\* no call on cop/save.py made, nothing in the save directory, no scene pushed
NoSaves ==
    /\ disk = NoFiles
    /\ io = SaveCall("none", 0, <<>>, <<>>)
    /\ game = NewGame

(***************************************************************************)
(* cop/scenes.py: the LevelScene around a run, and cop/ui.py: the error    *)
(* line its TextEditor highlights.                                         *)
(***************************************************************************)
\* scenes.py:652: the max_counts the scene passes to make_timeline
PlayCounts == 128

\* scenes.py:555-558 and ui.py:280: the scene and its editor as constructed
NewScene ==
    [error |-> NoError, playing |-> FALSE, timeline |-> <<>>, timeline_i |-> 0,
     count_timer |-> 0, error_line |-> NoLine]

\* scenes.py:591-595: what _load_level resets besides the band
LoadScene(sc) ==
    [sc EXCEPT !.error = NoError, !.playing = FALSE, !.timeline = <<>>, !.timeline_i = 0,
               !.count_timer = 0]

\* ui.py:293-294
set_error_line(sc, line_number) == [sc EXCEPT !.error_line = line_number]

\* scenes.py:647-662: the scene once run_player_code has returned res on band b
SceneAfter(sc, res, b) ==
    IF ~res.ok THEN [sc EXCEPT !.error = res.error]
    ELSE [sc EXCEPT !.timeline = make_timeline(b, PlayCounts).timeline,
                    !.timeline_i = 0,
                    !.count_timer = 0,
                    !.playing = TRUE,
                    !.error = NoError]

\* scenes.py:647-660: the band once run_player_code has returned res on band b
BandAfterRun(res, b) ==
    IF ~res.ok THEN b
    ELSE LET m == make_timeline(b, PlayCounts)
         IN  IF Len(m.timeline) > 0 THEN apply_snapshot(m.band, m.timeline[1]) ELSE m.band

\* no call of run_player_code made yet
Idle ==
    /\ pc = "idle"
    /\ prev = "idle"
    /\ code = Unparsable("SyntaxError", NoLine)
    /\ env = {}
    /\ line_limit = 0
    /\ counter = 0
    /\ tracing = FALSE
    /\ locals_dict = {}
    /\ resolved = {}
    /\ at = "end"
    /\ si = 0
    /\ todo = <<>>
    /\ exc = NoExc
    /\ kwargs = NoKwargs
    /\ result = <<>>
    /\ scene = NewScene

Init ==
    /\ band = NewBand
    /\ call = NoValue
    /\ Idle
    /\ NoSaves

Counted == IF tracing THEN counter + 1 ELSE counter

\* the tracer raises StepLimit (code_runner.py:53-58)
Trips == tracing /\ counter + 1 > line_limit

\* The host (LevelScene._run, scenes.py:635-646) loads the level and calls
\* run_player_code(p, e, line_limit=limit): code_runner.py:51-81 up to exec.
\* The game has no current save, so _save_code writes nothing (scenes.py:582),
\* and the level is not the one of week 1, so the tutorial gate lets every
\* text through (scenes.py:605-606); the exception of a call that raised has left
\* _run without a statement of it running (scenes.py:646).
Call(p, e, limit) ==
    /\ pc \in {"idle", "returned", "raised"}
    /\ prev' = IF pc = "returned" /\ ~result.ok THEN "failed" ELSE pc
    /\ band' = load_level(band)
    /\ scene' = LoadScene(scene)
    /\ code' = p
    /\ env' = e
    /\ line_limit' = limit
    /\ counter' = FreshCounter
    /\ tracing' = TRUE
    /\ locals_dict' = e
    /\ resolved' = {}
    /\ result' = <<>>
    /\ kwargs' = NoKwargs
    /\ IF p.compile = "ok"
       THEN /\ pc' = "script"
            /\ at' = FirstPart(p)[1]
            /\ si' = FirstPart(p)[2]
            /\ todo' = PartLines(p, FirstPart(p)[1], FirstPart(p)[2], band')
            /\ exc' = NoExc
       ELSE /\ pc' = "failure"
            /\ at' = "end"
            /\ si' = 0
            /\ exc' = Exc(p.compile, <<RunnerFrame>>, p.lineno)
            /\ todo' = FailureLines(exc')
    /\ UNCHANGED <<call, saveVars>>

\* exec runs the next line of the script, or of what the script called
ScriptLine ==
    /\ pc = "script"
    /\ LET ev == Head(todo)
           raised == IF Trips THEN "StepLimit" ELSE Raises(ev, locals_dict)
           nxt == NextPart(code, at, si)
       IN  /\ counter' = Counted
           /\ IF raised = None
              THEN /\ band' = BandAfter(ev, band)
                   /\ locals_dict' = IF ev.eff = "define" THEN locals_dict \cup {ev.a[1]}
                                     ELSE locals_dict
                   /\ resolved' = IF ev.eff = "lookup" THEN resolved \cup {ev.a[1]}
                                  ELSE resolved
                   /\ tracing' = tracing
                   /\ UNCHANGED <<exc, result>>
                   /\ IF Tail(todo) # <<>>
                      THEN /\ todo' = Tail(todo)
                           /\ UNCHANGED <<pc, at, si, kwargs>>
                      ELSE IF nxt[1] = "end"
                      THEN \* exec returned: code_runner.py:82 reads the counter
                           /\ pc' = "success"
                           /\ at' = "end"
                           /\ si' = 0
                           /\ kwargs' = RunResult(TRUE, NoError, Counted, NoLine)
                           /\ todo' = ResultInit
                      ELSE /\ at' = nxt[1]
                           /\ si' = nxt[2]
                           /\ todo' = PartLines(code, nxt[1], nxt[2], band')
                           /\ UNCHANGED <<pc, kwargs>>
              ELSE /\ UNCHANGED <<band, locals_dict, resolved>>
                   \* a trace function that raises is removed by the interpreter
                   /\ IF Protected(code, at)
                      THEN \* the script's own except clause takes it
                           /\ at' = "except"
                           /\ si' = 0
                           /\ todo' = PartLines(code, "except", 0, band)
                           /\ tracing' = (tracing /\ ~Trips)
                           /\ UNCHANGED <<pc, exc, kwargs, result>>
                      ELSE IF raised = "StepLimit"
                      THEN /\ pc' = "returned"
                           /\ result' = StepLimitResult(Counted)
                           /\ tracing' = finally_settrace(FALSE)
                           /\ todo' = <<>>
                           /\ UNCHANGED <<at, si, exc, kwargs>>
                      ELSE /\ pc' = "failure"
                           /\ exc' = Exc(raised, <<RunnerFrame>> \o ev.frames, NoLine)
                           /\ todo' = FailureLines(exc')
                           /\ tracing' = tracing
                           /\ UNCHANGED <<at, si, kwargs, result>>
    /\ scene' = IF pc' = "returned" THEN SceneAfter(scene, result', band') ELSE scene
    /\ env' = CallerEnv(env, locals_dict')
    /\ UNCHANGED <<call, prev, code, line_limit, saveVars>>

\* code_runner.py:82: RunResult(ok=True, ...) is built, line by line, and returned
SuccessLine ==
    /\ pc = "success"
    /\ counter' = Counted
    /\ IF Trips
       THEN \* StepLimit raised inside the try block: code_runner.py:83-84
            /\ pc' = "returned"
            /\ result' = StepLimitResult(Counted)
            /\ tracing' = finally_settrace(FALSE)
            /\ todo' = <<>>
       ELSE IF Head(todo).eff = "return"
       THEN /\ pc' = "returned"
            /\ result' = kwargs
            /\ tracing' = finally_settrace(tracing)
            /\ todo' = <<>>
       ELSE /\ todo' = Tail(todo)
            /\ UNCHANGED <<pc, result, tracing>>
    /\ band' = IF pc' = "returned" THEN BandAfterRun(result', band) ELSE band
    /\ scene' = IF pc' = "returned" THEN SceneAfter(scene, result', band) ELSE scene
    /\ UNCHANGED <<call, prev, code, env, line_limit, locals_dict, resolved, at, si,
                   exc, kwargs, saveVars>>

\* code_runner.py:85-91: the except Exception clause, line by line
FailureLine ==
    /\ pc = "failure"
    /\ counter' = Counted
    /\ IF Trips
       THEN \* StepLimit raised inside the except clause: only finally runs
            /\ pc' = "raised"
            /\ tracing' = finally_settrace(FALSE)
            /\ todo' = <<>>
            /\ UNCHANGED <<kwargs, result>>
       ELSE IF Head(todo).eff = "return"
       THEN /\ pc' = "returned"
            /\ result' = kwargs
            /\ tracing' = finally_settrace(tracing)
            /\ todo' = <<>>
            /\ UNCHANGED kwargs
       ELSE /\ todo' = Tail(todo)
            /\ kwargs' =
                 CASE Head(todo).eff = "set_error" ->
                        [kwargs EXCEPT !.error = friendly_error(exc),
                                       !.lines_executed = Counted]
                   [] Head(todo).eff = "set_error_line" ->
                        [kwargs EXCEPT !.error_line = extract_error_line(exc)]
                   [] OTHER -> kwargs
            /\ UNCHANGED <<pc, result, tracing>>
    /\ scene' = IF pc' = "returned" THEN SceneAfter(scene, result', band) ELSE scene
    /\ UNCHANGED <<band, call, prev, code, env, line_limit, locals_dict, resolved, at, si,
                   exc, saveVars>>

Next ==
    \/ \E i \in 1 .. Len(Runs), limit \in LimitArgs : Call(Runs[i].text, Runs[i].env, limit)
    \/ ScriptLine
    \/ SuccessLine
    \/ FailureLine

Spec == Init /\ [][Next]_vars

(***************************************************************************)
(* SpecBand: the Band driven through its API, one call per step.           *)
(***************************************************************************)
InitBand ==
    /\ band = load_level(NewBand)
    /\ call = NoValue
    /\ Idle
    /\ NoSaves

SetPos(n, p) ==
    /\ band' = set_pos(band, n, p[1], p[2])
    /\ call' = NoValue
    /\ UNCHANGED <<sandboxVars, saveVars>>

StepTo(who, p, c) ==
    /\ Len(band.queue) + Len(who) <= MaxQueue
    /\ band' = step_to(band, who, p[1], p[2], c)
    /\ call' = NoValue
    /\ UNCHANGED <<sandboxVars, saveVars>>

Wait(c) ==
    /\ Len(band.queue) < MaxQueue
    /\ band' = wait(band, c)
    /\ call' = NoValue
    /\ UNCHANGED <<sandboxVars, saveVars>>

ResetActions ==
    /\ band' = reset_actions(band)
    /\ call' = NoValue
    /\ UNCHANGED <<sandboxVars, saveVars>>

MakeTimeline(m) ==
    /\ band' = make_timeline(band, m).band
    /\ call' = Returned("make_timeline", m, make_timeline(band, m).timeline,
                        call.op = "make_timeline" /\ call.arg = m)
    /\ UNCHANGED <<sandboxVars, saveVars>>

NextBand ==
    \/ \E n \in Names, p \in Points : SetPos(n, p)
    \/ \E who \in WhoArgs, p \in Points, c \in CountArgs : StepTo(who, p, c)
    \/ \E c \in CountArgs : Wait(c)
    \/ ResetActions
    \/ \E m \in TickArgs : MakeTimeline(m)

SpecBand == InitBand /\ [][NextBand]_vars

(***************************************************************************)
(* SpecApi: up to MaxCalls calls of the Band API on a freshly loaded       *)
(* level.  call is the last call made: its name, its arguments, the band   *)
(* it was made on, what it returned, and how many calls have been made.    *)
(***************************************************************************)
ApiCall(op, args, before, val, n) ==
    [op |-> op, args |-> args, before |-> before, val |-> val, n |-> n]

MoveCounts == {-1, 0, MaxCounts}
StepCounts == {0, MaxCounts}

\* who arguments: a name the level has not, two names, and the name wait
\* gives to its own actions
ApiWho == {<<"B">>, <<"A", "B">>, <<WAIT>>}

\* max_counts arguments: none, some and all of the ticks of two actions
PlayArgs == 0 .. MaxTicks + 1

\* snapshots handed to apply_snapshot: of the level as loaded, and of a
\* band with B in it
SnapArgs ==
    { snapshot(load_level(NewBand)),
      snapshot(set_pos(spawn(load_level(NewBand), "B", LevelSection, 1, 2), "A", 0, 0)) }

InitApi ==
    /\ band = load_level(NewBand)
    /\ call = ApiCall("load_level", <<>>, NewBand, <<>>, 0)
    /\ Idle
    /\ NoSaves

ApiSpawn(n, p) ==
    /\ call.n < MaxCalls
    /\ band' = spawn(band, n, LevelSection, p[1], p[2])
    /\ call' = ApiCall("spawn", [name |-> n, pos |-> p], band, <<>>, call.n + 1)
    /\ UNCHANGED <<sandboxVars, saveVars>>

ApiSetPos(n, p) ==
    /\ call.n < MaxCalls
    /\ band' = set_pos(band, n, p[1], p[2])
    /\ call' = ApiCall("set_pos", [name |-> n, pos |-> p], band, <<>>, call.n + 1)
    /\ UNCHANGED <<sandboxVars, saveVars>>

\* get_pos returns <<(x, y)>>, or raises KeyError and returns nothing
ApiGetPos(n) ==
    /\ call.n < MaxCalls
    /\ band' = band
    /\ call' = ApiCall("get_pos", [name |-> n], band,
                       IF get_pos_raises(band, n) THEN <<>> ELSE <<get_pos(band, n)>>,
                       call.n + 1)
    /\ UNCHANGED <<sandboxVars, saveVars>>

ApiStepTo(who, p, c) ==
    /\ call.n < MaxCalls
    /\ band' = step_to(band, who, p[1], p[2], c)
    /\ call' = ApiCall("step_to", [who |-> who, pos |-> p, counts |-> c], band, <<>>,
                       call.n + 1)
    /\ UNCHANGED <<sandboxVars, saveVars>>

ApiWait(c) ==
    /\ call.n < MaxCalls
    /\ band' = wait(band, c)
    /\ call' = ApiCall("wait", [counts |-> c], band, <<>>, call.n + 1)
    /\ UNCHANGED <<sandboxVars, saveVars>>

ApiResetActions ==
    /\ call.n < MaxCalls
    /\ band' = reset_actions(band)
    /\ call' = ApiCall("reset_actions", <<>>, band, <<>>, call.n + 1)
    /\ UNCHANGED <<sandboxVars, saveVars>>

ApiApplySnapshot(snap) ==
    /\ call.n < MaxCalls
    /\ band' = apply_snapshot(band, snap)
    /\ call' = ApiCall("apply_snapshot", [snap |-> snap], band, <<>>, call.n + 1)
    /\ UNCHANGED <<sandboxVars, saveVars>>

ApiMakeTimeline(m) ==
    /\ call.n < MaxCalls
    /\ band' = make_timeline(band, m).band
    /\ call' = ApiCall("make_timeline", [max_counts |-> m], band,
                       make_timeline(band, m).timeline, call.n + 1)
    /\ UNCHANGED <<sandboxVars, saveVars>>

ApiSimulate(m) ==
    /\ call.n < MaxCalls
    /\ band' = simulate(band, m)
    /\ call' = ApiCall("simulate", [max_counts |-> m], band, <<>>, call.n + 1)
    /\ UNCHANGED <<sandboxVars, saveVars>>

NextApi ==
    \/ \E n \in Names, p \in Points : ApiSpawn(n, p)
    \/ \E n \in Names, p \in Points : ApiSetPos(n, p)
    \/ \E n \in Names : ApiGetPos(n)
    \/ \E who \in ApiWho, p \in Points, c \in StepCounts : ApiStepTo(who, p, c)
    \/ \E c \in MoveCounts : ApiWait(c)
    \/ ApiResetActions
    \/ \E snap \in SnapArgs : ApiApplySnapshot(snap)
    \/ \E m \in PlayArgs : ApiMakeTimeline(m)
    \/ \E m \in PlayArgs : ApiSimulate(m)

SpecApi == InitApi /\ [][NextApi]_vars

(***************************************************************************)
(* SpecSave: the save slots, one call of cop/save.py per step.  io is the  *)
(* last call: its name, the slot number, the slot object it was given (or  *)
(* left with) and what it returned.                                        *)
(***************************************************************************)
\* a slot as the title scene creates it (scenes.py:336), and one played on
NewSlot(k) == [SaveSlot(k) EXCEPT !.name = "DIRECTOR"]
PlayedSlot(k) ==
    [SaveSlot(k) EXCEPT !.week_unlocked = 2,
                        !.last_played_week = 2,
                        !.pride_points = MaxPoints,
                        !.hints_used = 1,
                        !.name = "LEAH",
                        !.code_by_level = <<<<"week_1", "target_x = 4">>>>,
                        !.intro_seen = TRUE]

SlotArgs == [i \in 1 .. 2 * MaxSlots |-> IF i <= MaxSlots THEN NewSlot(i) ELSE PlayedSlot(i - MaxSlots)]

LevelKeys == {"week_2"}
CodeTexts == {"target_x = 4", "# Sandbox"}

\* the file of a slot saved before SaveSlot had the code_by_level field
OldFile(k) ==
    File(SelectSeq(json_dump(asdict(PlayedSlot(k))), LAMBDA m : m[1] # "code_by_level"))

\* the save directory found at start: empty, or the first slot saved by an older release
InitSave ==
    /\ band = NewBand
    /\ call = NoValue
    /\ Idle
    /\ io = SaveCall("none", 0, <<>>, <<>>)
    /\ game = NewGame
    /\ \/ disk = NoFiles
       \/ disk = [NoFiles EXCEPT ![1] = OldFile(1)]

WriteSlot(s) ==
    /\ disk' = write_slot(disk, s)
    /\ io' = SaveCall("write_slot", s.slot, <<s>>, <<>>)
    /\ UNCHANGED <<bandVars, sandboxVars, game>>

LoadSlot(slot) ==
    /\ disk' = disk
    /\ io' = SaveCall("load_slot", slot, <<>>, load_slot(disk, slot))
    /\ UNCHANGED <<bandVars, sandboxVars, game>>

DeleteSlot(slot) ==
    /\ disk' = delete_slot(disk, slot)
    /\ io' = SaveCall("delete_slot", slot, <<>>, <<>>)
    /\ UNCHANGED <<bandVars, sandboxVars, game>>

\* called with the slot object the game loaded from the slot's file
SaveLevelCode(slot, level_key, code_text) ==
    /\ disk[slot].exists
    /\ LET r == save_level_code(disk, load_slot(disk, slot)[1], level_key, code_text)
       IN  /\ disk' = r.dir
           /\ io' = SaveCall("save_level_code", slot, <<r.slot>>, <<>>)
    /\ UNCHANGED <<bandVars, sandboxVars, game>>

NextSave ==
    \/ \E i \in 1 .. Len(SlotArgs) : WriteSlot(SlotArgs[i])
    \/ \E slot \in 1 .. MaxSlots : LoadSlot(slot)
    \/ \E slot \in 1 .. MaxSlots : DeleteSlot(slot)
    \/ \E slot \in 1 .. MaxSlots, k \in LevelKeys, t \in CodeTexts : SaveLevelCode(slot, k, t)

SpecSave == InitSave /\ [][NextSave]_vars

(***************************************************************************)
(* cop/scenes.py: the Game, its stack of scenes and what the scenes' event *)
(* handlers do.  A scene on the stack is the name of its class; the fields *)
(* of the one hub, the one dialogue and the one level scene a stack can    *)
(* hold are fields of game, and the level scene's band and playback are    *)
(* band and scene.  The editor's text is <<text, hints>>: the text typed   *)
(* and the number of hint comments _hint has appended to it.               *)
(***************************************************************************)
\* scenes.py:561: count_step, 0.10 s; time is counted in units of 50 ms
count_step == 2

\* scenes.py:701
AwardPoints == 100

\* scenes.py:392, 702: the last week of the campaign
LastWeek == 16

\* scenes.py:692
ObjectiveMessage == "Objective not met. Adjust code and run again."

\* scenes.py:612: the first message of the tutorial gate
GateMessage == "LEAH (DM): Pick your dot. Set target_x = the target X."

\* scenes.py:194-195
push(g, sc) == [g EXCEPT !.stack = Append(@, sc)]

\* a pop that does not look at the length of the stack
pop_unguarded(g) == [g EXCEPT !.stack = SubSeq(@, 1, Len(@) - 1)]

\* scenes.py:197-199
pop(g) == IF Len(g.stack) > 1 THEN [g EXCEPT !.stack = SubSeq(@, 1, Len(@) - 1)] ELSE g

\* scenes.py:201-202
replace(g, sc) == [g EXCEPT !.stack = <<sc>>]

\* scenes.py:204-205: Game.scene()
TopScene(g) == g.stack[Len(g.stack)]

\* the weeks game.level_by_week has a level for, each level with the start
\* layout StartEntities and the objective that A reaches (0,0)
LevelWeeks == {1, LastWeek - 1, LastWeek}
Objective == [entity |-> "A", target |-> <<0, 0>>]

\* editor texts: one that passes the tutorial gate of week 1 and meets the
\* objective, one that runs and does not meet it (the starter code of every
\* level), one that fails; Texts are the ones typed
TextHit ==
    "target_x = 1\ntarget_y = 2\nband.set_pos('A', 0, 0)\nband.step_to('DM', target_x, target_y, counts=8)"
TextMiss == "band.wait(2)"
TextFail == "band.set_pos('A', 0, 0)\nprint(y)"
SandboxText == "# Sandbox: experiment.\n"
Texts == {TextHit, TextFail}

\* level.starter_code
StarterText == TextMiss

\* the statements of a text
Body(text) ==
    CASE text = TextHit ->
            <<Assign("target_x"), Assign("target_y"), CallSetPos("A", <<0, 0>>),
              CallStepTo("DM", <<1, 2>>, 8)>>
      [] text = TextMiss -> <<CallWait(2)>>
      [] text = TextFail -> <<CallSetPos("A", <<0, 0>>), Ref("y")>>
      [] OTHER -> <<>>

\* scenes.py:601-622: the message of the gate, None when the text passes
tutorial_gate_message(g) ==
    IF g.sandbox \/ g.level = 0 THEN None
    ELSE IF g.level # 1 THEN None
    ELSE IF g.text[1] = TextHit THEN None
    ELSE GateMessage

\* run_player_code(text, {"band": b}) as one step: the result and the band
\* the statements run before the first one that raises leave
RECURSIVE Exec(_, _, _)
Exec(body, b, locs) ==
    IF body = <<>> THEN [result |-> RunResult(TRUE, NoError, 0, NoLine), band |-> b]
    ELSE LET st == Head(body)
         IN  CASE st.op = "ref" /\ ~Resolves(st.a[1], "module", locs) ->
                    [result |-> RunResult(FALSE, friendly_error(Exc("NameError", <<>>, NoLine)),
                                          0, NoLine),
                     band |-> b]
               [] st.op = "assign" -> Exec(Tail(body), b, locs \cup {st.a[1]})
               [] st.op = "set_pos" ->
                    Exec(Tail(body), set_pos(b, st.a[1], st.a[2], st.a[3]), locs)
               [] st.op = "step_to" ->
                    Exec(Tail(body), step_to(b, <<st.a[1]>>, st.a[2], st.a[3], st.a[4]), locs)
               [] st.op = "wait" -> Exec(Tail(body), wait(b, st.a[1]), locs)
               [] OTHER -> Exec(Tail(body), b, locs)

\* scenes.py:584: the key of a level in code_by_level
LevelKey(week) == "week_" \o ToString(week)

\* scenes.py:581-586: the game and the save directory afterwards
save_code(g, d) ==
    IF g.sandbox \/ g.level = 0 \/ g.current_save = <<>> THEN [game |-> g, dir |-> d]
    ELSE LET r == save_level_code(d, g.current_save[1], LevelKey(g.level), g.text)
         IN  [game |-> [g EXCEPT !.current_save = <<r.slot>>], dir |-> r.dir]

\* scenes.py:588-599: the band _load_level leaves
load_band(g, b) ==
    IF g.level # 0 /\ ~g.sandbox THEN load_level(b)
    ELSE reset_actions([b EXCEPT !.entities = <<>>])

\* scenes.py:549-579: LevelScene(game, level, sandbox) on top of the stack
NewLevelScene(g, week, sandbox) ==
    LET code_by == IF g.current_save = <<>> THEN <<>> ELSE g.current_save[1].code_by_level
        starter == IF sandbox THEN <<SandboxText, 0>>
                   ELSE IF week # 0 /\ g.current_save # <<>> /\ HasMember(code_by, LevelKey(week))
                        THEN Member(code_by, LevelKey(week))
                        ELSE IF week # 0 THEN <<StarterText, 0>> ELSE <<"", 0>>
    IN  push([g EXCEPT !.level = week, !.sandbox = sandbox, !.text = starter], "LevelScene")

\* scenes.py:624-633
objective_met(g, b) ==
    IF g.sandbox \/ g.level = 0 THEN FALSE
    ELSE get_pos(b, Objective.entity) = Objective.target

\* an _award_points that unlocks a week after the last one
award_points_uncapped(g, d) ==
    LET s == g.current_save[1]
        s1 == [s EXCEPT !.pride_points = @ + AwardPoints,
                        !.week_unlocked = IF @ = g.level THEN @ + 1 ELSE @]
    IN  [game |-> push([g EXCEPT !.current_save = <<s1>>, !.awards = @ + 1], "ScoreScene"),
         dir |-> write_slot(d, s1)]

\* scenes.py:697-705: the game and the save directory afterwards; awards
\* counts the awards made
award_points(g, d) ==
    IF g.sandbox \/ g.level = 0 \/ g.current_save = <<>> THEN [game |-> g, dir |-> d]
    ELSE LET s == g.current_save[1]
             s1 == [s EXCEPT !.pride_points = @ + AwardPoints,
                             !.week_unlocked = IF @ = g.level /\ @ < LastWeek THEN @ + 1
                                               ELSE @]
         IN  [game |-> push([g EXCEPT !.current_save = <<s1>>, !.awards = @ + 1],
                            "ScoreScene"),
              dir |-> write_slot(d, s1)]

\* an update that applies the snapshot it leaves, not the one it arrives at
RECURSIVE UpdateLoop_lagging(_, _)
UpdateLoop_lagging(sc, b) ==
    IF sc.count_timer >= count_step /\ sc.playing
    THEN LET sc1 == [sc EXCEPT !.count_timer = @ - count_step, !.timeline_i = @ + 1]
         IN  IF sc1.timeline_i >= Len(sc1.timeline)
             THEN [scene |-> [sc1 EXCEPT !.playing = FALSE], band |-> b, ended |-> TRUE]
             ELSE UpdateLoop_lagging(sc1, apply_snapshot(b, sc1.timeline[sc1.timeline_i]))
    ELSE [scene |-> sc, band |-> b, ended |-> FALSE]

\* scenes.py:684-695: the loop of update, up to the evaluation of the
\* objective; ended says it left by the break
RECURSIVE UpdateLoop(_, _)
UpdateLoop(sc, b) ==
    IF sc.count_timer >= count_step /\ sc.playing
    THEN LET sc1 == [sc EXCEPT !.count_timer = @ - count_step, !.timeline_i = @ + 1]
         IN  IF sc1.timeline_i >= Len(sc1.timeline)
             THEN [scene |-> [sc1 EXCEPT !.playing = FALSE], band |-> b, ended |-> TRUE]
             ELSE UpdateLoop(sc1, apply_snapshot(b, sc1.timeline[sc1.timeline_i + 1]))
    ELSE [scene |-> sc, band |-> b, ended |-> FALSE]

\* a _start_selected that starts any week that has a level
start_selected_any(g, d) ==
    LET s == [g.current_save[1] EXCEPT !.last_played_week = g.selected_week]
        g1 == [g EXCEPT !.current_save = <<s>>]
    IN  IF g.selected_week \notin LevelWeeks THEN [game |-> g, dir |-> d]
        ELSE [game |-> NewLevelScene(g1, g.selected_week, FALSE), dir |-> write_slot(d, s)]

\* scenes.py:397-472: the game and the save directory afterwards.  A
\* DialogueScene is pushed with the name of its on_done.  The toast of a week
\* without a level is taken down by the hub's draw of the same frame
\* (scenes.py:513-515).
start_selected(g, d) ==
    IF g.current_save = <<>> THEN [game |-> g, dir |-> d]
    ELSE IF g.selected_week > g.current_save[1].week_unlocked THEN [game |-> g, dir |-> d]
    ELSE IF g.selected_week \notin LevelWeeks
         THEN [game |-> g, dir |-> d]
    ELSE LET s == [g.current_save[1] EXCEPT !.last_played_week = g.selected_week]
             g1 == [g EXCEPT !.current_save = <<s>>]
             d1 == write_slot(d, s)
             seen == [s EXCEPT !.intro_seen = TRUE]
         IN  IF g.selected_week = 1 /\ ~s.intro_seen
             THEN [game |-> push([g1 EXCEPT !.current_save = <<seen>>,
                                            !.on_done = "after_intro"], "DialogueScene"),
                   dir |-> write_slot(d1, seen)]
             ELSE IF g.selected_week = 1 /\ ~s.week1_briefing_seen
             THEN [game |-> push([g1 EXCEPT !.on_done = "after_brief"], "DialogueScene"),
                   dir |-> d1]
             ELSE IF g.selected_week = 1 /\ ~s.week1_lesson_seen
             THEN [game |-> push([g1 EXCEPT !.on_done = "start_practice"], "DialogueScene"),
                   dir |-> d1]
             ELSE [game |-> NewLevelScene(g1, g.selected_week, FALSE), dir |-> d1]

\* scenes.py:417-435 (and the copies at 441-455, 461-467): what the on_done
\* of a dialogue does; lvl is the level of week 1
on_done(g, d) ==
    CASE g.on_done = "after_intro" ->
            [game |-> push([pop(g) EXCEPT !.on_done = "after_brief"], "DialogueScene"),
             dir |-> d]
      [] g.on_done = "after_brief" ->
            LET s == IF g.current_save = <<>> THEN <<>>
                     ELSE <<[g.current_save[1] EXCEPT !.week1_briefing_seen = TRUE]>>
            IN  [game |-> push([pop(g) EXCEPT !.current_save = s,
                                              !.on_done = "start_practice"], "DialogueScene"),
                 dir |-> IF s = <<>> THEN d ELSE write_slot(d, s[1])]
      [] g.on_done = "start_practice" ->
            LET s == IF g.current_save = <<>> THEN <<>>
                     ELSE <<[g.current_save[1] EXCEPT !.week1_lesson_seen = TRUE]>>
            IN  [game |-> NewLevelScene([pop(g) EXCEPT !.current_save = s], 1, FALSE),
                 dir |-> IF s = <<>> THEN d ELSE write_slot(d, s[1])]

\* a ScoreScene whose OK leaves the scenes under it where they are
PopToHub_kept(g) == g

\* scenes.py:529-530: the loop of ScoreScene's OK
RECURSIVE PopToHub(_)
PopToHub(g) ==
    IF Len(g.stack) > 1 /\ TopScene(g) # "CampaignHubScene" THEN PopToHub(pop(g)) ELSE g

(***************************************************************************)
(* SpecGame: the main loop, one event handled or one update per step.      *)
(***************************************************************************)
\* the week a click at relx pixels into the strip of weeks selects
\* (scenes.py:390-392)
RelxArgs == {30, 351}

\* the time between two frames, in units of 50 ms
DtArgs == {1, 2, 5}

\* how a button of the level scene is pressed: its hotkey, or a click on it
Hows == {"key", "mouse"}

\* the rows of the save slots scene whose buttons are clicked
Rows == {1}

\* the slot of a player who has every week but the last unlocked
VeteranSlot ==
    [SaveSlot(1) EXCEPT !.week_unlocked = LastWeek - 1, !.last_played_week = LastWeek - 1,
                        !.pride_points = (LastWeek - 2) * AwardPoints, !.intro_seen = TRUE,
                        !.week1_briefing_seen = TRUE, !.week1_lesson_seen = TRUE]

\* main.py:27: the Game is constructed; the save directory is empty or holds
\* the veteran's file
InitGame ==
    /\ band = NewBand
    /\ call = NoValue
    /\ Idle
    /\ io = SaveCall("none", 0, <<>>, <<>>)
    /\ game = NewGame
    /\ \/ disk = NoFiles
       \/ disk = write_slot(NoFiles, VeteranSlot)

\* a scene taken off the stack is gone with its fields: the game with the
\* fields of the scenes its stack does not hold at their defaults
Holds(g, cls) == \E i \in 1 .. Len(g.stack) : g.stack[i] = cls

Forget(g) ==
    [g EXCEPT !.selected_week = IF Holds(g, "CampaignHubScene") THEN @ ELSE NewGame.selected_week,
              !.on_done = IF Holds(g, "DialogueScene") THEN @ ELSE NewGame.on_done,
              !.level = IF Holds(g, "LevelScene") THEN @ ELSE NewGame.level,
              !.sandbox = IF Holds(g, "LevelScene") THEN @ ELSE NewGame.sandbox,
              !.text = IF Holds(g, "LevelScene") THEN @ ELSE NewGame.text]

On(cls) == game.running /\ game.stack # <<>> /\ TopScene(game) = cls

\* main.py:28
Main ==
    /\ game.stack = <<>>
    /\ game' = push(game, "TitleScene")
    /\ UNCHANGED <<band, call, sandboxVars, disk, io>>

\* scenes.py:268-269
TitlePlay ==
    /\ On("TitleScene")
    /\ game' = push(game, "SaveSlotsScene")
    /\ UNCHANGED <<band, call, sandboxVars, disk, io>>

\* scenes.py:270-271
TitleQuit ==
    /\ On("TitleScene")
    /\ game' = [game EXCEPT !.running = FALSE]
    /\ UNCHANGED <<band, call, sandboxVars, disk, io>>

\* scenes.py:318-320
SlotsBack ==
    /\ On("SaveSlotsScene")
    /\ game' = pop(game)
    /\ UNCHANGED <<band, call, sandboxVars, disk, io>>

\* scenes.py:325-328; the toast is taken down by the draw of the same frame
\* (scenes.py:366-368)
SlotsDelete(slot) ==
    /\ On("SaveSlotsScene")
    /\ load_slot(disk, slot) # <<>>
    /\ disk' = delete_slot(disk, slot)
    /\ UNCHANGED <<band, call, sandboxVars, io, game>>

\* scenes.py:330-333, and CampaignHubScene.__init__ (scenes.py:378)
SlotsLoad(slot) ==
    /\ On("SaveSlotsScene")
    /\ load_slot(disk, slot) # <<>>
    /\ LET s == load_slot(disk, slot)
       IN  game' = replace([game EXCEPT !.current_save = s,
                                        !.selected_week = s[1].last_played_week],
                           "CampaignHubScene")
    /\ UNCHANGED <<band, call, sandboxVars, disk, io>>

\* scenes.py:335-340, and CampaignHubScene.__init__ (scenes.py:378)
SlotsNew(slot) ==
    /\ On("SaveSlotsScene")
    /\ load_slot(disk, slot) = <<>>
    /\ LET s == SaveSlot(slot)
       IN  /\ disk' = write_slot(disk, s)
           /\ game' = replace([game EXCEPT !.current_save = <<s>>,
                                           !.selected_week = s.last_played_week],
                              "CampaignHubScene")
    /\ UNCHANGED <<band, call, sandboxVars, io>>

\* scenes.py:382-384
HubHome ==
    /\ On("CampaignHubScene")
    /\ game' = Forget(replace(game, "TitleScene"))
    /\ UNCHANGED <<band, call, sandboxVars, disk, io>>

\* scenes.py:385-387, with LevelScene.__init__ (scenes.py:549-579)
HubSandbox ==
    /\ On("CampaignHubScene")
    /\ game' = NewLevelScene(game, 0, TRUE)
    /\ band' = load_band(game', NewBand)
    /\ scene' = LoadScene(NewScene)
    /\ UNCHANGED <<call, runVars, disk, io>>

\* scenes.py:389-392
HubSelect(relx) ==
    /\ On("CampaignHubScene")
    /\ game' = [game EXCEPT !.selected_week = Max(1, Min(LastWeek, 1 + (relx \div 22)))]
    /\ UNCHANGED <<band, call, sandboxVars, disk, io>>

\* scenes.py:394-395: a click on START; a level scene it pushes is
\* constructed (scenes.py:549-579)
HubStart ==
    /\ On("CampaignHubScene")
    /\ game.awards < MaxAwards
    /\ LET r == start_selected(game, disk)
       IN  /\ game' = Forget(r.game)
           /\ disk' = r.dir
           /\ band' = IF TopScene(r.game) = "LevelScene" THEN load_band(r.game, NewBand)
                      ELSE band
           /\ scene' = IF TopScene(r.game) = "LevelScene" THEN LoadScene(NewScene) ELSE scene
    /\ UNCHANGED <<call, runVars, io>>

\* scenes.py:219-240: the last NEXT, SKIP or Escape of a dialogue; the pages
\* turned before it change nothing else
DialogueFinish ==
    /\ On("DialogueScene")
    /\ LET r == on_done(game, disk)
       IN  /\ game' = Forget(r.game)
           /\ disk' = r.dir
           /\ band' = IF TopScene(r.game) = "LevelScene" THEN load_band(r.game, NewBand)
                      ELSE band
           /\ scene' = IF TopScene(r.game) = "LevelScene" THEN LoadScene(NewScene) ELSE scene
    /\ UNCHANGED <<call, runVars, io>>

\* scenes.py:526-532
ScoreOk ==
    /\ On("ScoreScene")
    /\ game' = Forget(pop(PopToHub(game)))
    /\ band' = IF Holds(game', "LevelScene") THEN band ELSE NewBand
    /\ scene' = IF Holds(game', "LevelScene") THEN scene ELSE NewScene
    /\ UNCHANGED <<call, runVars, disk, io>>

\* scenes.py:709-712 (Escape) and 728-730, 737-739 (a click on BACK)
LevelBack(how) ==
    /\ On("LevelScene")
    /\ how = "mouse" => ~scene.playing
    /\ LET r == save_code(game, disk)
       IN  /\ game' = Forget(pop(r.game))
           /\ disk' = r.dir
    /\ band' = NewBand
    /\ scene' = NewScene
    /\ UNCHANGED <<call, runVars, io>>

\* scenes.py:716-718 (Ctrl+R) and 728-732 (a click on RUN): _run (scenes.py:635-662)
LevelRun(how) ==
    /\ On("LevelScene")
    /\ how = "mouse" => ~scene.playing
    /\ LET r == save_code(game, disk)
           ran == Exec(Body(game.text[1]), load_band(game, band), HostEnv)
       IN  /\ game' = r.game
           /\ disk' = r.dir
           /\ IF tutorial_gate_message(game) # None
              THEN /\ scene' = [scene EXCEPT !.error = <<tutorial_gate_message(game), "">>]
                   /\ band' = band
              ELSE /\ scene' = SceneAfter(LoadScene(scene), ran.result, ran.band)
                   /\ band' = BandAfterRun(ran.result, ran.band)
    /\ UNCHANGED <<call, runVars, io>>

\* scenes.py:719-721 (Ctrl+E) and 728-734 (a click on RESET): _reset (scenes.py:664-670)
LevelReset(how) ==
    /\ On("LevelScene")
    /\ how = "mouse" => ~scene.playing
    /\ band' = load_band(game, band)
    /\ scene' = set_error_line(LoadScene(scene), NoLine)
    /\ game' = [game EXCEPT !.text = IF game.level # 0 /\ ~game.sandbox THEN <<StarterText, 0>>
                                     ELSE <<SandboxText, 0>>]
    /\ UNCHANGED <<call, runVars, disk, io>>

\* scenes.py:722-724 (Ctrl+H) and 728-736 (a click on HINT): _hint (scenes.py:672-678)
LevelHint(how) ==
    /\ On("LevelScene")
    /\ how = "mouse" => ~scene.playing
    /\ ~(game.sandbox \/ game.level = 0)
    /\ game.text[2] < MaxHints
    /\ game' = [game EXCEPT !.text = <<@[1], @[2] + 1>>]
    /\ UNCHANGED <<band, call, sandboxVars, disk, io>>

\* scenes.py:726: the keys that leave text in the editor (ui.py:296-297)
LevelType(text) ==
    /\ On("LevelScene")
    /\ game' = [game EXCEPT !.text = <<text, 0>>]
    /\ scene' = set_error_line(scene, NoLine)
    /\ UNCHANGED <<band, call, runVars, disk, io>>

\* main.py:53 with scenes.py:680-695: update(dt) of the level scene on top
Update(dt) ==
    /\ On("LevelScene")
    /\ scene.playing
    /\ LET u == UpdateLoop([scene EXCEPT !.count_timer = @ + dt], band)
           r == award_points(game, disk)
       IN  /\ band' = u.band
           /\ IF u.ended /\ objective_met(game, u.band)
              THEN /\ scene' = u.scene
                   /\ game' = r.game
                   /\ disk' = r.dir
              ELSE /\ scene' = IF u.ended THEN [u.scene EXCEPT !.error = <<ObjectiveMessage, "">>]
                               ELSE u.scene
                   /\ UNCHANGED <<game, disk>>
    /\ UNCHANGED <<call, runVars, io>>

NextGame ==
    \/ Main
    \/ TitlePlay
    \/ TitleQuit
    \/ SlotsBack
    \/ \E slot \in Rows : SlotsDelete(slot)
    \/ \E slot \in Rows : SlotsLoad(slot)
    \/ \E slot \in Rows : SlotsNew(slot)
    \/ HubHome
    \/ HubSandbox
    \/ \E relx \in RelxArgs : HubSelect(relx)
    \/ HubStart
    \/ DialogueFinish
    \/ ScoreOk
    \/ \E how \in Hows : LevelBack(how)
    \/ \E how \in Hows : LevelRun(how)
    \/ \E how \in Hows : LevelReset(how)
    \/ \E how \in Hows : LevelHint(how)
    \/ \E text \in Texts : LevelType(text)
    \/ \E dt \in DtArgs : Update(dt)

SpecGame == InitGame /\ [][NextGame]_vars

(***************************************************************************)

(* Claims about make_timeline, checked under SpecBand.                     *)
(***************************************************************************)
RECURSIVE SumCounts(_)
SumCounts(q) == IF q = <<>> THEN 0 ELSE Head(q).counts + SumCounts(Tail(q))

\* C3: make_timeline leaves the whole band as it found it: the entities (names,
\* sections, positions and their order), the queue and the time counter.
ThmC3_TimelinePure ==
    [][call'.op = "make_timeline" => band' = band]_bandVars

\* a timeline in which an entity moved has been built, and the registry is not
\* at the timeline's last positions
WitC3_MovedTimeline ==
    /\ call.op = "make_timeline"
    /\ Len(call.val) > 1
    /\ call.val[Len(call.val)] # call.val[1]
    /\ snapshot(band) = call.val[1]

\* C4: the timeline has 1 + min(C, M) snapshots, C the queue's total counts and
\* M the max_counts argument.
ThmC4_TimelineLength ==
    call.op = "make_timeline" =>
        Len(call.val) = 1 + Min(SumCounts(band.queue), call.arg)

\* a timeline cut short by max_counts, with at least one tick in it
WitC4_Truncated ==
    /\ call.op = "make_timeline"
    /\ call.arg > 0
    /\ SumCounts(band.queue) > call.arg
    /\ Len(call.val) = 1 + call.arg

\* C5: a make_timeline call repeated with the same max_counts right after
\* another returns the same timeline.
ThmC5_TimelineRepeatable ==
    [][(call.op = "make_timeline" /\ call'.op = "make_timeline" /\ call'.arg = call.arg)
          => call'.val = call.val]_bandVars

\* the second of two consecutive calls has returned a timeline with movement
WitC5_SecondCall ==
    /\ call.op = "make_timeline"
    /\ call.again
    /\ Len(call.val) > 1
    /\ call.val[Len(call.val)] # call.val[1]

(***************************************************************************)
(* Claims about run_player_code, checked under Spec.                       *)
(***************************************************************************)
Ended == pc \in {"returned", "raised"}

\* the call ended on a fault of the running script, not of its parsing
RuntimeFault == exc.type # None /\ ~IsSyntaxError(exc)

\* the line of the innermost frame of tb that belongs to the script
RECURSIVE InnermostScriptLine(_, _)
InnermostScriptLine(tb, i) ==
    IF i > Len(tb) THEN NoLine
    ELSE IF InnermostScriptLine(tb, i + 1) # NoLine THEN InnermostScriptLine(tb, i + 1)
    ELSE IF tb[i][1] = "<string>" THEN LineNo(tb[i][2])
    ELSE NoLine

\* C1: once more than line_limit lines have been counted the script runs no
\* further line, and the call returns the step-limit failure, whatever
\* handlers the script has.
CexC1_TripEndsScript ==
    counter > line_limit =>
        /\ pc # "script"
        /\ pc = "returned" => (~result.ok /\ result.error[1] = LimitMessage)

\* C2: no call ends by raising to its caller, and every failed result
\* carries a message.
CexC2_NothingEscapes ==
    /\ pc # "raised"
    /\ (pc = "returned" /\ ~result.ok) => Len(result.error) > 0

\* C6: when a call has ended, on any path, the trace function is no longer
\* installed, and the call that follows one that ended starts with its
\* counter at zero.
ThmC6_Teardown ==
    [][/\ Ended' => ~tracing'
       /\ (Ended /\ ~Ended') => counter' = 0]_vars

WitC6_LaterCall ==
    /\ prev = "raised"
    /\ pc = "returned"
    /\ result.ok
    /\ result.lines_executed = 2
    /\ ~tracing

\* C7: a call that ends on a runtime fault returns a failed result whose
\* message names the fault and whose error_line is the line of the
\* innermost frame of the script, none when the script has no frame.
CexC7_FaultReported ==
    (Ended /\ RuntimeFault) =>
        /\ pc = "returned"
        /\ ~result.ok
        /\ result.error[1] = exc.type
        /\ result.error_line = InnermostScriptLine(exc.tb, 1)

\* C8: the result returned for text that does not parse is a failed one
\* that names the parse fault, gives the parser's line and counts no line,
\* and the band is as the level's loading left it.
CexC8_ParseFailure ==
    (pc = "returned" /\ IsSyntaxError(exc)) =>
        /\ ~result.ok
        /\ result.error[1] = exc.type
        /\ result.error_line = exc.lineno
        /\ result.lines_executed = 0
        /\ band = load_level(NewBand)

\* C9: every name a script resolves is one of the 13 allowed builtins, a
\* key of env or a name the script defined.
CexC9_OnlyAllowedNames == resolved \subseteq (SafeBuiltins \cup env \cup locals_dict)

Moves(act) == act.entity # WAIT

Last(tl) == tl[Len(tl)]

\* the position of name n in a snapshot
PosIn(snap, n) == DictGet(snap, n).pos

(***************************************************************************)
(* Claims about the Band API, checked under SpecApi.                       *)
(***************************************************************************)
\* where name n stands in band b, (0,0) when b does not have it yet
StartOf(b, n) == IF HasKey(b.entities, n) THEN get_pos(b, n) ELSE <<0, 0>>

\* C11: step_to on a name the registry does not have leaves it there as
\* Entity(name, GEN, 0, 0) with one move queued from (0,0) to (x,y); and
\* when an action made by step_to is the only one queued and its counts fit
\* in max_counts, the timeline's last snapshot shows its entity at its end.
CexC11_NewcomerArrives ==
    /\ call.op = "step_to" =>
            \A j \in 1 .. Len(call.args.who) :
                ~HasKey(call.before.entities, call.args.who[j]) =>
                    /\ DictGet(band.entities, call.args.who[j])
                          = Entity(call.args.who[j], GEN, 0, 0)
                    /\ band.queue[Len(call.before.queue) + j].start = <<0, 0>>
                    /\ band.queue[Len(call.before.queue) + j].end = call.args.pos
    /\ (/\ call.op = "make_timeline"
        /\ Len(band.queue) = 1
        /\ HasKey(band.entities, band.queue[1].entity)
        /\ band.queue[1].counts <= call.args.max_counts) =>
            PosIn(Last(call.val), band.queue[1].entity) = band.queue[1].end

\* C12: step_to with k names leaves the queue it found with k actions added
\* at its end, the j-th for the j-th name, starting where that entity stood
\* when the call was made, all with the end (x,y) asked for and one counts.
ThmC12_OneActionPerName ==
    call.op = "step_to" =>
        LET who == call.args.who
            q0 == call.before.queue
            q == band.queue
        IN  /\ Len(q) = Len(q0) + Len(who)
            /\ \A j \in 1 .. Len(q0) : q[j] = q0[j]
            /\ \A j \in 1 .. Len(who) :
                    /\ q[Len(q0) + j].entity = who[j]
                    /\ q[Len(q0) + j].start = StartOf(call.before, who[j])
                    /\ q[Len(q0) + j].end = call.args.pos
                    /\ q[Len(q0) + j].counts = q[Len(q0) + 1].counts

\* A and B were sent together from different places to one point
WitC12_TwoNames ==
    /\ call.op = "step_to"
    /\ call.args.who = <<"A", "B">>
    /\ Len(band.queue) = 2
    /\ band.queue[1].start # band.queue[2].start
    /\ band.queue[1].end = band.queue[2].end

\* C13: whatever counts step_to and wait are given, zero and negative
\* included, every action in the queue has counts of at least 1.
ThmC13_CountsPositive == \A i \in 1 .. Len(band.queue) : band.queue[i].counts >= 1

\* a move and a wait asked for with counts below 1 are both in the queue
WitC13_ClampedCounts ==
    /\ call.op = "wait"
    /\ call.args.counts < 1
    /\ Len(band.queue) = 2
    /\ Moves(band.queue[1])
    /\ band.queue[1].counts = 1
    /\ band.queue[2].counts = 1

\* C14: every call but reset_actions leaves each action already in the
\* queue as it was queued: entity, start, end and counts.
ThmC14_QueuedActionsKept ==
    call.op \notin {"load_level", "reset_actions"} =>
        /\ Len(band.queue) >= Len(call.before.queue)
        /\ \A i \in 1 .. Len(call.before.queue) : band.queue[i] = call.before.queue[i]

\* an entity with a move queued was placed elsewhere, and the move still
\* starts where the entity stood when it was queued
WitC14_MovedAfterQueuing ==
    /\ call.op = "set_pos"
    /\ Len(band.queue) >= 1
    /\ band.queue[1].entity = call.args.name
    /\ band.queue[1].start # call.args.pos
    /\ band.queue[1].start = get_pos(call.before, call.args.name)
    /\ get_pos(band, call.args.name) = call.args.pos

(***************************************************************************)
(* Claims about the order and the content of the timeline, checked under   *)
(* SpecApi.  Snapshot k (k = 0 the initial one) is call.val[k + 1].        *)
(***************************************************************************)
\* the ticks played before action i starts
TicksBefore(q, i) == SumCounts(SubSeq(q, 1, i - 1))

\* the action that owns global tick k (k >= 1), by insertion order
Owner(q, k) ==
    CHOOSE i \in 1 .. Len(q) : TicksBefore(q, i) < k /\ k <= TicksBefore(q, i) + q[i].counts

\* the ticks a timeline holds
Ticks(tl) == 1 .. Len(tl) - 1

\* C15: the k-th tick of the timeline belongs to the action whose range of
\* ticks, laid end to end in queue order, contains k, and shows that
\* action's entity where the action's own tick k - (ticks before it) puts it.
ThmC15_QueueOrder ==
    call.op = "make_timeline" =>
        \A k \in Ticks(call.val) :
            LET i == Owner(band.queue, k)
                act == band.queue[i]
            IN  Moves(act) =>
                    PosIn(call.val[k + 1], act.entity)
                        = Interpolate(act, k - TicksBefore(band.queue, i) - 1)

\* two moves to different ends were played in full, the first over two ticks
WitC15_TwoMovesPlayed ==
    /\ call.op = "make_timeline"
    /\ Len(band.queue) = 2
    /\ Moves(band.queue[1])
    /\ Moves(band.queue[2])
    /\ band.queue[1].end # band.queue[2].end
    /\ band.queue[1].counts = 2
    /\ Len(call.val) = 1 + SumCounts(band.queue)
    /\ PosIn(call.val[3], band.queue[1].entity) = band.queue[1].end
    /\ PosIn(Last(call.val), band.queue[2].entity) = band.queue[2].end

\* v is an integer nearest to the quotient n / d (d > 0)
Nearest(v, n, d) == 2 * v * d - 2 * n <= d /\ 2 * n - 2 * v * d <= d

\* c times the exact coordinate of act at its tick t, on axis ax
Scaled(act, t, ax) == act.start[ax] * act.counts + (act.end[ax] - act.start[ax]) * (t + 1)

\* C16: at tick t of a move the entity is, on each axis, at an integer
\* nearest to start + (end - start) * (t+1) / counts, and at the move's last
\* tick exactly at end; a move from (0,0) to (4,0) over 4 counts passes
\* (1,0), (2,0), (3,0), (4,0).
ThmC16_Interpolation ==
    /\ \A t \in 0 .. 3 : Interpolate(StepAction("A", <<0, 0>>, <<4, 0>>, 4), t) = <<t + 1, 0>>
    /\ call.op = "make_timeline" =>
        \A k \in Ticks(call.val) :
            LET i == Owner(band.queue, k)
                act == band.queue[i]
                t == k - TicksBefore(band.queue, i) - 1
                p == PosIn(call.val[k + 1], act.entity)
            IN  Moves(act) =>
                    /\ \A ax \in {1, 2} : Nearest(p[ax], Scaled(act, t, ax), act.counts)
                    /\ t = act.counts - 1 => p = act.end

\* a move over two counts passed a point that is neither its start nor its
\* end (the x axis at a tie, the y axis at an integer) and reached its end
WitC16_Midpoint ==
    /\ call.op = "make_timeline"
    /\ Len(band.queue) >= 1
    /\ Moves(band.queue[1])
    /\ band.queue[1].counts = 2
    /\ band.queue[1].start = <<1, 2>>
    /\ band.queue[1].end = <<0, 0>>
    /\ Len(call.val) >= 3
    /\ PosIn(call.val[2], band.queue[1].entity) = <<0, 1>>
    /\ PosIn(call.val[3], band.queue[1].entity) = <<0, 0>>

IsPrefix(s1, s2) == Len(s1) <= Len(s2) /\ \A i \in 1 .. Len(s1) : s1[i] = s2[i]

\* C17: a timeline holds no snapshot for a tick past max_counts, and is a
\* prefix of the timeline any larger max_counts gives for the same band.
ThmC17_TruncationIsPrefix ==
    call.op = "make_timeline" =>
        /\ Len(call.val) <= 1 + call.args.max_counts
        /\ \A m \in PlayArgs :
                m >= call.args.max_counts =>
                    IsPrefix(call.val, make_timeline(call.before, m).timeline)

\* a timeline cut inside a queue of two actions, shorter than the one the
\* next larger max_counts gives
WitC17_CutShort ==
    /\ call.op = "make_timeline"
    /\ Len(band.queue) = 2
    /\ call.args.max_counts >= 1
    /\ SumCounts(band.queue) > call.args.max_counts
    /\ Len(call.val) = 1 + call.args.max_counts
    /\ Len(make_timeline(call.before, call.args.max_counts + 1).timeline) > Len(call.val)

\* C18: from one snapshot to the next only the entity of the action that
\* owns the tick may have moved, every other entry is the same, and over a
\* tick of a wait the whole snapshot is the same.
ThmC18_OnlyOwnerMoves ==
    call.op = "make_timeline" =>
        \A k \in Ticks(call.val) :
            LET act == band.queue[Owner(band.queue, k)]
                old == call.val[k]
                new == call.val[k + 1]
            IN  /\ Len(new) = Len(old)
                /\ \A j \in 1 .. Len(old) :
                        /\ new[j].name = old[j].name
                        /\ (~Moves(act) \/ old[j].name # act.entity) => new[j] = old[j]

\* with two entities in the registry a move changed one of them, and the
\* tick of the wait queued last changed nothing
WitC18_WaitTick ==
    /\ call.op = "make_timeline"
    /\ Len(band.queue) = 3
    /\ ~Moves(band.queue[3])
    /\ Len(call.val) = 1 + SumCounts(band.queue)
    /\ Len(call.val[1]) = 2
    /\ Last(call.val) # call.val[1]
    /\ Last(call.val) = call.val[Len(call.val) - 1]

\* the names of a snapshot, in its order
NamesOf(snap) == [j \in 1 .. Len(snap) |-> snap[j].name]

\* C19: snapshot 0 is the registry's positions when make_timeline was
\* called, and every snapshot has every name of the registry.
ThmC19_FullSnapshots ==
    call.op = "make_timeline" =>
        /\ Len(call.val) >= 1
        /\ call.val[1] = snapshot(call.before)
        /\ \A k \in 1 .. Len(call.val) : NamesOf(call.val[k]) = Keys(call.before.entities)

\* a registry of two entities, of which one moved in the timeline: its last
\* snapshot still has both
WitC19_BothInLast ==
    /\ call.op = "make_timeline"
    /\ Len(call.before.entities) = 2
    /\ Len(call.val) > 1
    /\ Last(call.val) # call.val[1]
    /\ Len(Last(call.val)) = 2

\* name n is in band b, in section GEN
InGen(b, n) == HasKey(b.entities, n) /\ DictGet(b.entities, n).section = GEN

\* C20: get_pos leaves the band as it is, raising for a name the registry
\* lacks and returning the position of one it has; set_pos and step_to on
\* a name the registry lacks leave it there in section GEN.
ThmC20_ReadWriteAsymmetry ==
    /\ call.op = "get_pos" =>
            /\ band = call.before
            /\ IF HasKey(call.before.entities, call.args.name)
               THEN call.val = <<get_pos(call.before, call.args.name)>>
               ELSE Len(call.val) = 0
    /\ (call.op = "set_pos" /\ ~HasKey(call.before.entities, call.args.name)) =>
            InGen(band, call.args.name)
    /\ call.op = "step_to" =>
            \A j \in 1 .. Len(call.args.who) :
                ~HasKey(call.before.entities, call.args.who[j]) => InGen(band, call.args.who[j])

\* get_pos of B, which the level does not have, raised and B is still absent
WitC20_UnknownRead ==
    /\ call.op = "get_pos"
    /\ call.args.name = "B"
    /\ ~HasKey(call.before.entities, "B")
    /\ Len(call.val) = 0
    /\ band = call.before
    /\ ~HasKey(band.entities, "B")

\* C21: set_pos of a name the registry lacks appends it in section GEN at
\* (x, y); set_pos of a name it has gives that entity the coordinates (x, y)
\* and keeps its section; every other entity, the order of the names, the
\* queue and the time are as before.
ThmC21_SetPos ==
    call.op = "set_pos" =>
        LET old == call.before.entities
            n == call.args.name
            p == call.args.pos
        IN  /\ band.queue = call.before.queue
            /\ band.time = call.before.time
            /\ IF HasKey(old, n)
               THEN /\ Len(band.entities) = Len(old)
                    /\ \A i \in 1 .. Len(old) :
                            band.entities[i] =
                                IF old[i].name = n
                                THEN Entity(n, old[i].section, p[1], p[2])
                                ELSE old[i]
               ELSE band.entities = Append(old, Entity(n, GEN, p[1], p[2]))

\* the level's A was placed elsewhere while B stood beside it and a move
\* was queued
WitC21_KnownAmongOthers ==
    /\ call.op = "set_pos"
    /\ call.args.name = "A"
    /\ Len(call.before.entities) = 2
    /\ call.before.queue # <<>>
    /\ get_pos(call.before, "A") # call.args.pos
    /\ get_pos(band, "A") = call.args.pos
    /\ DictGet(band.entities, "A").section = LevelSection

\* band b1 is band b0 after one call of spawn, set_pos or step_to
OneWrite(b0, b1) ==
    \/ \E n \in Names, p \in Points : b1 = spawn(b0, n, LevelSection, p[1], p[2])
    \/ \E n \in Names, p \in Points : b1 = set_pos(b0, n, p[1], p[2])
    \/ \E who \in ApiWho, p \in Points, c \in StepCounts : b1 = step_to(b0, who, p[1], p[2], c)

\* C22: when a snapshot S is taken, spawn / set_pos / step_to calls follow
\* and apply_snapshot(S) is called, a new snapshot equals S.  Here S is the
\* snapshot of the level as loaded and one such call follows it.
CexC22_SnapshotRestores ==
    ( /\ call.op = "apply_snapshot"
      /\ call.n = 2
      /\ call.args.snap = snapshot(load_level(NewBand))
      /\ OneWrite(load_level(NewBand), call.before) )
        => snapshot(band) = call.args.snap

\* C26: the positions simulate(M) leaves in the registry are the last
\* snapshot of the timeline make_timeline(M) gives for the same registry and
\* queue.
ThmC26_SimulateEndsWhereTimelineEnds ==
    call.op = "simulate" =>
        snapshot(band) = Last(make_timeline(call.before, call.args.max_counts).timeline)

\* simulate stopped by max_counts inside a queue of two actions, having
\* moved an entity
WitC26_StoppedAfterMoving ==
    /\ call.op = "simulate"
    /\ Len(call.before.queue) = 2
    /\ call.args.max_counts < SumCounts(call.before.queue)
    /\ snapshot(band) # snapshot(call.before)

\* C29: the names of one step_to([A, B], x, y, counts = c) call move during
\* the same c ticks: on the loaded level with an empty queue the call adds c
\* ticks to the timeline, and snapshot c shows both A and B at (x, y).
CexC29_MoveTogether ==
    ( /\ call.op = "make_timeline"
      /\ call.n = 2
      /\ Len(band.queue) = 2
      /\ band.queue[1].entity = "A"
      /\ band.queue[2].entity = "B"
      /\ call.args.max_counts >= SumCounts(band.queue) )
        => LET c == band.queue[1].counts
           IN  /\ Len(call.val) = 1 + c
               /\ PosIn(call.val[1 + c], "A") = band.queue[1].end
               /\ PosIn(call.val[1 + c], "B") = band.queue[1].end

(***************************************************************************)
(* Claims about a run started by LevelScene._run, checked under Spec.      *)
(***************************************************************************)
\* C30: a reference to a name of the bindings table, from a statement at the
\* top level of the script or inside a function the script defines and
\* calls, resolves and raises no NameError.
CexC30_BindingsVisible ==
    ( /\ pc = "script"
      /\ Head(todo).eff = "lookup"
      /\ Head(todo).a[1] \in env )
        => Raises(Head(todo), locals_dict) # "NameError"

\* the script is about to run its first line
Starting == pc = "script" /\ counter = 0

\* C23: when the script of a run starts (the first run, a run after one that
\* succeeded, failed or raised), the queue is empty, the band's time is 0
\* and the registry holds the level's start entities at their positions.
ThmC23_RunStartsFromLevel ==
    Starting =>
        /\ band.queue = <<>>
        /\ band.time = 0
        /\ band.entities = StartEntities

\* a script that spawns B is starting after a run that failed
WitC23_RerunAfterFailure ==
    /\ Starting
    /\ prev = "failed"
    /\ code.body[1].op = "step_to"
    /\ band.entities = StartEntities

\* C24: when run_player_code has returned a result without ok, the
\* registry is the level's start layout, as it was when the script started.
CexC24_FailureRestores ==
    (pc = "returned" /\ ~result.ok) => band.entities = StartEntities

\* the band the Band API calls of a script's statements give, made in order on band b
RECURSIVE Play(_, _)
Play(body, b) ==
    IF body = <<>> THEN b
    ELSE LET st == IF Head(body).op = "fcall" THEN Head(body).a[1] ELSE Head(body)
             b1 == CASE st.op = "spawn" -> spawn(b, st.a[1], st.a[2], st.a[3], st.a[4])
                     [] st.op = "set_pos" -> set_pos(b, st.a[1], st.a[2], st.a[3])
                     [] st.op = "step_to" -> step_to(b, <<st.a[1]>>, st.a[2], st.a[3], st.a[4])
                     [] st.op = "wait" -> wait(b, st.a[1])
                     [] OTHER -> b
         IN  Play(Tail(body), b1)

\* C25: a run of a script P that follows a failed run (or any other) gives
\* the timeline and the final registry that P's calls give on a freshly
\* loaded level.
ThmC25_FailureLeavesNoTrace ==
    (pc = "returned" /\ result.ok) =>
        LET first == Play(code.body, load_level(NewBand))
        IN  /\ band = first
            /\ scene.timeline = make_timeline(first, PlayCounts).timeline

\* a script that moves B has run to its end after a run that failed
WitC25_MovedAfterFailure ==
    /\ pc = "returned"
    /\ result.ok
    /\ prev = "failed"
    /\ Len(scene.timeline) = 3
    /\ HasKey(band.entities, "B")

\* C27: after a run that failed with a result carrying an error line k, the
\* editor's highlighted error line is k.
CexC27_ErrorLineShown ==
    (pc = "returned" /\ ~result.ok /\ result.error_line # NoLine) =>
        scene.error_line = result.error_line

(***************************************************************************)
(* Claims about the save slots, checked under SpecSave.                    *)
(***************************************************************************)
\* C28: load_slot after write_slot(s) returns a slot equal to s field by
\* field; load_slot of a slot with no file returns None; a file without the
\* code_by_level member loads with code_by_level an empty map.
ThmC28_SlotRoundTrip ==
    /\ io.op \in {"write_slot", "save_level_code"} =>
            LET loaded == load_slot(disk, io.slot)
            IN  /\ Len(loaded) = 1
                /\ \A i \in 1 .. Len(Fields) : loaded[1][Fields[i]] = io.arg[1][Fields[i]]
    /\ io.op = "load_slot" =>
            /\ ~disk[io.slot].exists => Len(io.val) = 0
            /\ disk[io.slot].exists =>
                    /\ Len(io.val) = 1
                    /\ ~HasMember(disk[io.slot].doc, "code_by_level") =>
                            io.val[1].code_by_level = <<>>

\* a slot with points, a name, a seen flag and two saved scripts was written
\* over another file of its slot
WitC28_PlayedSlotWritten ==
    /\ io.op = "save_level_code"
    /\ io.arg[1].pride_points = MaxPoints
    /\ io.arg[1].intro_seen
    /\ Len(io.arg[1].code_by_level) = 2
    /\ load_slot(disk, io.slot)[1].code_by_level = io.arg[1].code_by_level

(***************************************************************************)
(* Claims about moves queued one after the other, checked under SpecApi.   *)
(***************************************************************************)
\* C31: an action queued by step_to starts where the registry has its
\* entity when the call is made, and the call leaves the entity there; so a
\* second move queued for an entity that has not been repositioned has the
\* start of the first one, not its end, and the timeline shows the entity at
\* the first tick of the second move interpolated from that start.
ThmC31_SecondMoveStartsAtRegistry ==
    /\ call.op = "step_to" =>
        \A j \in Len(call.before.queue) + 1 .. Len(band.queue) :
            LET act == band.queue[j]
            IN  /\ act.start = StartOf(call.before, act.entity)
                /\ get_pos(band, act.entity) = act.start
                /\ \A i \in 1 .. Len(call.before.queue) :
                        ( /\ call.before.queue[i].entity = act.entity
                          /\ call.before.queue[i].start = StartOf(call.before, act.entity) )
                            => act.start = call.before.queue[i].start
    /\ call.op = "make_timeline" =>
        \A k \in Ticks(call.val) :
            LET i == Owner(band.queue, k)
                act == band.queue[i]
            IN  \A j \in 1 .. i - 1 :
                    ( /\ Moves(act)
                      /\ k = TicksBefore(band.queue, i) + 1
                      /\ band.queue[j].entity = act.entity
                      /\ band.queue[j].start = get_pos(call.before, act.entity)
                      /\ act.start = get_pos(call.before, act.entity) )
                        => PosIn(call.val[k + 1], act.entity)
                            = Interpolate(StepAction(act.entity, band.queue[j].start,
                                                     act.end, act.counts), 0)

\* two moves of B were queued from (0,0), the first one to another point,
\* and the timeline shows B at the first tick of the second move where the
\* interpolation from (0,0) puts it, which is not where the first move ends
WitC31_SecondMovePlayed ==
    /\ call.op = "make_timeline"
    /\ Len(band.queue) = 2
    /\ band.queue[1].entity = "B"
    /\ band.queue[2].entity = "B"
    /\ band.queue[1].start = <<0, 0>>
    /\ band.queue[1].end = <<1, 2>>
    /\ band.queue[2].start = <<0, 0>>
    /\ band.queue[2].counts = 2
    /\ Len(call.val) = 1 + SumCounts(band.queue)
    /\ PosIn(call.val[2 + band.queue[1].counts], "B") # band.queue[1].end

(***************************************************************************)
(* Claims about the caller's bindings table, checked under Spec.           *)
(***************************************************************************)
\* C32: no line of a run, of the script or of the runner after it, changes
\* the keys of the table the caller passed; and every call starts its
\* script on the keys of the table it is given, so that a name an earlier
\* script bound, and the table does not have, cannot be read by the script
\* of the next call.
ThmC32_EnvUntouched ==
    [][ /\ pc \in {"script", "success", "failure"} => env' = env
        /\ (pc \in {"idle", "returned", "raised"} /\ pc' \in {"script", "failure"}) =>
                /\ locals_dict' = env'
                /\ \A n \in locals_dict \ env' : ~Resolves(n, "module", locals_dict')
      ]_vars

\* a second run on the host's table has returned after its script bound a
\* name the table does not have
WitC32_BoundOutsideEnv ==
    /\ pc = "returned"
    /\ prev = "returned"
    /\ result.ok
    /\ env = HostEnv
    /\ locals_dict \ env # {}

(***************************************************************************)
(* Claims about the playback of a level scene, checked under SpecGame.     *)
(***************************************************************************)
\* a playback of the level scene has run to its end and nothing has been
\* loaded since: _load_level empties the timeline
Played == ~scene.playing /\ scene.timeline # <<>>

\* C33: while the level scene is playing, timeline_i is an index of the
\* timeline and the registry holds the positions of timeline[timeline_i];
\* once the playback has ended the registry holds the positions of the last
\* snapshot.
ThmC33_PlaybackInvariant ==
    Holds(game, "LevelScene") =>
        /\ scene.playing =>
                /\ 0 <= scene.timeline_i
                /\ scene.timeline_i < Len(scene.timeline)
                /\ snapshot(band) = scene.timeline[scene.timeline_i + 1]
        /\ Played =>
                /\ scene.timeline_i = Len(scene.timeline)
                /\ snapshot(band) = Last(scene.timeline)

\* the playback is at its fourth snapshot, which is not the one it started on
WitC33_MidPlayback ==
    /\ Holds(game, "LevelScene")
    /\ scene.playing
    /\ scene.timeline_i = 3
    /\ scene.timeline[4] # scene.timeline[1]
    /\ scene.timeline[4] # Last(scene.timeline)

\* C35: while the level scene is playing, no RUN, RESET or HINT, clicked or
\* pressed as Ctrl+R, Ctrl+E or Ctrl+H, changes the registry, the queue or
\* the timeline, or stops the playback.
CexC35_InputIgnoredWhilePlaying ==
    [][ ( /\ scene.playing
          /\ \E how \in Hows : LevelRun(how) \/ LevelReset(how) \/ LevelHint(how) )
            => /\ band' = band
               /\ scene'.timeline = scene.timeline
               /\ scene'.playing
      ]_vars

\* C34: a playback stops only by the update that brings timeline_i to the
\* length of the timeline, that is after as many advances as the timeline
\* has snapshots, and that update either awards the points or sets the
\* message of the objective not met, never both and never neither.
CexC34_PlaybackEndsEvaluated ==
    [][ ( /\ Holds(game, "LevelScene")
          /\ Holds(game', "LevelScene")
          /\ scene.playing
          /\ ~scene'.playing )
            => /\ scene'.timeline = scene.timeline
               /\ scene'.timeline_i = Len(scene.timeline)
               /\ (game'.awards = game.awards + 1) # (scene'.error = <<ObjectiveMessage, "">>)
      ]_vars

(***************************************************************************)
(* Claims about the progression of a save slot, checked under SpecGame.    *)
(***************************************************************************)
\* C36: the week_unlocked of the current save is within 1 .. 16; over a
\* step made under a campaign hub (a level start, a run, an award) it never
\* decreases and it increases, by exactly 1, only in the step that awards
\* the points for the level of the week it was at; and the level of a level
\* scene started from the hub is of a week that is unlocked.
ThmC36_Progression ==
    [][ game'.current_save # <<>> =>
            LET after == game'.current_save[1]
            IN  /\ after.week_unlocked \in 1 .. LastWeek
                /\ (Holds(game', "LevelScene") /\ ~game'.sandbox) =>
                        /\ game'.level >= 1
                        /\ game'.level <= after.week_unlocked
                /\ (Holds(game, "CampaignHubScene") /\ Holds(game', "CampaignHubScene")) =>
                        LET before == game.current_save[1]
                        IN  /\ after.week_unlocked >= before.week_unlocked
                            /\ after.week_unlocked # before.week_unlocked =>
                                    /\ after.week_unlocked = before.week_unlocked + 1
                                    /\ game.level = before.week_unlocked
                                    /\ TopScene(game') = "ScoreScene"
                                    /\ after.pride_points = before.pride_points + AwardPoints
      ]_vars

\* the points for the level of the last week were awarded to a slot that
\* had unlocked it by an award for the week before
WitC36_LastWeekAwarded ==
    /\ game.stack = <<"CampaignHubScene", "LevelScene", "ScoreScene">>
    /\ game.level = LastWeek
    /\ game.awards = 2
    /\ game.current_save[1].week_unlocked = LastWeek
    /\ game.current_save[1].pride_points = LastWeek * AwardPoints
    /\ load_slot(disk, 1) = game.current_save

(***************************************************************************)
(* Claims about the stack of scenes, checked under SpecGame.               *)
(***************************************************************************)
\* C37: once a scene has been pushed no handler leaves the stack empty, so
\* that Game.scene() has a scene to return; and pop leaves a stack of one
\* scene as it is.
ThmC37_StackNeverEmpty ==
    [][ /\ game.stack # <<>> => game'.stack # <<>>
        /\ Len(game.stack) = 1 => pop(game) = game
      ]_vars

\* the title scene is alone on the stack again after points were awarded:
\* scenes were pushed, the stack was replaced, and OK on the score scene
\* called pop on a stack of one
WitC37_HomeAfterAward ==
    /\ game.stack = <<"TitleScene">>
    /\ game.awards = 1
    /\ game.running

\* C38: the score scene is only ever on top of a level scene on top of the
\* campaign hub, and OK on it leaves the hub as the top scene: the score
\* scene and the level scene are taken off and the hub stays.
ThmC38_ScoreOkBackToHub ==
    [][ /\ (game'.stack # <<>> /\ TopScene(game') = "ScoreScene") =>
                game'.stack = <<"CampaignHubScene", "LevelScene", "ScoreScene">>
        /\ ScoreOk =>
                /\ TopScene(game') = "CampaignHubScene"
                /\ game'.stack = <<"CampaignHubScene">>
                /\ game'.current_save = game.current_save
      ]_vars

\* OK was clicked on the score of week 1 and the hub is the top scene, its
\* slot with week 2 unlocked
WitC38_HubAfterOk ==
    /\ game.stack = <<"CampaignHubScene">>
    /\ game.awards = 1
    /\ game.current_save[1].week_unlocked = 2
    /\ game.current_save[1].pride_points = AwardPoints
    /\ game.current_save[1].last_played_week = 1

====
